---- MODULE Spec2Model ----
(***************************************************************************)
(* Model of the gitguy diff viewer (package app, diff viewer driven by     *)
(* unified-diff text and by udiff edit scripts).                           *)
(*                                                                         *)
(* Strings are sequences of one-character strings.  The box-drawing rune   *)
(* U+2502 of the source is written "|"; it has printable width 1 like the  *)
(* original.  A styled string is modelled by its printable runes; the      *)
(* lipgloss style of a row is kept in the row's kind.                      *)
(***************************************************************************)
EXTENDS Integers, Sequences, FiniteSets, TLC

VARIABLES content, syntaxHighlight, showWhitespace, width, height, err,
          mode, scrollSync, leftViewport, rightViewport, unifiedViewport,
          quit, built, tui, run, api

vars == <<content, syntaxHighlight, showWhitespace, width, height, err,
          mode, scrollSync, leftViewport, rightViewport, unifiedViewport,
          quit, built, tui, run, api>>

(***************************************************************************)
(* Bounds of the exploration.                                              *)
(***************************************************************************)
MaxWidth == 130

\* Scrolling down is explored up to this offset.
MaxScroll == 1

(***************************************************************************)
(* Go integer arithmetic.                                                  *)
(***************************************************************************)
Max(a, b) == IF a > b THEN a ELSE b

Min(a, b) == IF a < b THEN a ELSE b

\* Go's / on ints truncates toward zero.
GoDiv(a, b) == IF a >= 0 THEN a \div b ELSE -((-a) \div b)

\* int(float64(w) * 0.90): the product of a non-negative int and the double
\* nearest to 0.9 never rounds below the exact 9w/10, so the conversion
\* truncates to floor(9w/10).
Usable90(w) == GoDiv(w * 9, 10)

(***************************************************************************)
(* strings package.                                                        *)
(***************************************************************************)
IsSpace(c) == c \in {" ", "\t"}

HasPrefix(s, p) == Len(s) >= Len(p) /\ SubSeq(s, 1, Len(p)) = p

Repeat(c, n) == [k \in 1..n |-> c]

\* strings.TrimSpace(s) == ""
TrimsToEmpty(s) == \A k \in 1..Len(s) : IsSpace(s[k])

\* The positions of the rune c in s, in increasing order.
RECURSIVE IndexAll(_, _, _)
IndexAll(s, c, k) ==
    IF k > Len(s) THEN <<>>
    ELSE IF s[k] = c THEN <<k>> \o IndexAll(s, c, k + 1)
    ELSE IndexAll(s, c, k + 1)

\* strings.Split(s, "\n"): always at least one element.
Split(s) ==
    LET nl == <<0>> \o IndexAll(s, "\n", 1) \o <<Len(s) + 1>>
    IN [k \in 1..(Len(nl) - 1) |-> SubSeq(s, nl[k] + 1, nl[k + 1] - 1)]

\* strings.Join(lines, "\n")
RECURSIVE Join(_)
Join(ls) ==
    IF ls = <<>> THEN <<>>
    ELSE IF Len(ls) = 1 THEN ls[1]
    ELSE ls[1] \o <<"\n">> \o Join(Tail(ls))

\* strings.Fields(s): the maximal runs of non-space runes.
RECURSIVE FieldsFrom(_, _)
FieldsFrom(s, k) ==
    IF k > Len(s) THEN <<>>
    ELSE IF IsSpace(s[k]) THEN FieldsFrom(s, k + 1)
    ELSE LET ends == {e \in k..Len(s) : e = Len(s) \/ IsSpace(s[e + 1])}
             e == CHOOSE x \in ends : \A y \in ends : x <= y
         IN <<SubSeq(s, k, e)>> \o FieldsFrom(s, e + 1)

Fields(s) == FieldsFrom(s, 1)

(***************************************************************************)
(* fmt package: %d scanning and %4d formatting.                            *)
(***************************************************************************)
DigitVal(c) ==
    CASE c = "0" -> 0 [] c = "1" -> 1 [] c = "2" -> 2 [] c = "3" -> 3
      [] c = "4" -> 4 [] c = "5" -> 5 [] c = "6" -> 6 [] c = "7" -> 7
      [] c = "8" -> 8 [] c = "9" -> 9 [] OTHER -> -1

DigitChar(d) ==
    CASE d = 0 -> "0" [] d = 1 -> "1" [] d = 2 -> "2" [] d = 3 -> "3"
      [] d = 4 -> "4" [] d = 5 -> "5" [] d = 6 -> "6" [] d = 7 -> "7"
      [] d = 8 -> "8" [] OTHER -> "9"

RECURSIVE ScanDigits(_, _, _, _)
\* Reads the longest run of decimal digits of s from position k.
ScanDigits(s, k, acc, n) ==
    IF k <= Len(s) /\ DigitVal(s[k]) >= 0
    THEN ScanDigits(s, k + 1, acc * 10 + DigitVal(s[k]), n + 1)
    ELSE [ok |-> n > 0, val |-> acc]

\* The %d verb of fmt.Sscanf applied to s from position k: an optional
\* sign, then at least one digit; what follows the digits is not consumed.
ScanInt(s, k) ==
    IF k <= Len(s) /\ s[k] \in {"+", "-"}
    THEN LET r == ScanDigits(s, k + 1, 0, 0)
         IN [ok |-> r.ok, val |-> IF s[k] = "-" THEN -r.val ELSE r.val]
    ELSE ScanDigits(s, k, 0, 0)

\* fmt.Sscanf(field, "-%d", &v) / fmt.Sscanf(field, "+%d", &v): the literal
\* sign of the format must match the first rune, then %d is scanned; on
\* failure the target keeps the value it had.
Sscanf(field, sign, old) ==
    IF Len(field) >= 1 /\ field[1] = sign
    THEN LET r == ScanInt(field, 2) IN IF r.ok THEN r.val ELSE old
    ELSE old

RECURSIVE Digits(_)
Digits(n) == IF n < 10 THEN <<DigitChar(n)>>
             ELSE Append(Digits(n \div 10), DigitChar(n % 10))

\* fmt.Sprintf("%4d", n)
Sprintf4d(n) ==
    LET d == IF n < 0 THEN <<"-">> \o Digits(-n) ELSE Digits(n)
    IN Repeat(" ", 4 - Len(d)) \o d

(***************************************************************************)
(* muesli/reflow: ansi.PrintableRuneWidth, truncate.String,                *)
(* wordwrap.String.  "ESC" stands for one ANSI escape sequence (width 0).  *)
(***************************************************************************)
ESC == "ESC"

PrintableRuneWidth(s) == Cardinality({k \in 1..Len(s) : s[k] # ESC})

\* truncate.String(s, uint(n)): the longest prefix of printable width <= n.
\* A negative int converted to uint is larger than any string.
Truncate(s, n) ==
    IF n < 0 \/ PrintableRuneWidth(s) <= n THEN s
    ELSE LET over == {k \in 1..Len(s) : PrintableRuneWidth(SubSeq(s, 1, k)) > n}
             k == CHOOSE x \in over : \A y \in over : x <= y
         IN SubSeq(s, 1, k - 1)

\* wordwrap.WordWrap: buf is the output, space and word the pending runs,
\* lineLen the width of the current output line.
wwAddSpace(w) ==
    [w EXCEPT !.lineLen = w.lineLen + Len(w.space),
              !.buf = w.buf \o w.space, !.space = <<>>]

\* addWord, after its call of addSpace.
wwFlushWord(a) ==
    [a EXCEPT !.lineLen = a.lineLen + PrintableRuneWidth(a.word),
              !.buf = a.buf \o a.word, !.word = <<>>]

wwAddWord(w) == IF Len(w.word) > 0 THEN wwFlushWord(wwAddSpace(w)) ELSE w

wwAddNewLine(w) ==
    [w EXCEPT !.buf = Append(w.buf, "\n"), !.lineLen = 0, !.space = <<>>]

\* A newline rune with no pending word: the pending spaces are kept only if
\* they fit on the line.
wwEndLine(w, limit) ==
    IF Len(w.word) # 0 THEN w
    ELSE IF w.lineLen + Len(w.space) > limit
         THEN [w EXCEPT !.lineLen = 0, !.space = <<>>]
         ELSE [w EXCEPT !.buf = w.buf \o w.space, !.space = <<>>]

wwPutSpace(a, c) == [a EXCEPT !.space = Append(a.space, c)]

wwPutBreakpoint(a, c) == [a EXCEPT !.buf = Append(a.buf, c)]

\* After a rune was added to the word: break the line if the word no longer
\* fits on it and is shorter than the limit.
wwBreakIfOver(a, limit) ==
    IF a.lineLen + Len(a.space) + PrintableRuneWidth(a.word) > limit
       /\ PrintableRuneWidth(a.word) < limit
    THEN wwAddNewLine(a) ELSE a

\* WordWrap.Write for one rune c.
wwWrite(w, c, limit) ==
    IF c = ESC THEN [w EXCEPT !.word = Append(w.word, c)]
    ELSE IF c = "\n" THEN wwAddNewLine(wwAddWord(wwEndLine(w, limit)))
    ELSE IF IsSpace(c) THEN wwPutSpace(wwAddWord(w), c)
    ELSE IF c = "-" THEN wwPutBreakpoint(wwAddWord(wwAddSpace(w)), c)
    ELSE wwBreakIfOver([w EXCEPT !.word = Append(w.word, c)], limit)

RECURSIVE wwLoop(_, _, _, _)
\* Write, rune by rune, then Close.  (The test on lineLen has the writer
\* state evaluated before the next rune is read.)
wwLoop(w, s, k, limit) ==
    IF k > Len(s) THEN wwAddWord(w).buf
    ELSE IF w.lineLen < 0 THEN w.buf
    ELSE wwLoop(wwWrite(w, s[k], limit), s, k + 1, limit)

\* wordwrap.String(s, limit)
WordWrap(s, limit) ==
    IF limit = 0 THEN s
    ELSE wwLoop([buf |-> <<>>, space |-> <<>>, word |-> <<>>, lineLen |-> 0],
                s, 1, limit)

(***************************************************************************)
(* Rows: one terminal row of a pane.  kind is the style the row was        *)
(* rendered with, num the line number printed on it (NoNum for none), src  *)
(* the index of the diff line it was rendered from (0 for padding), first  *)
(* whether it is the first row of that line.                               *)
(***************************************************************************)
NoNum == -1000000

Row(kind, num, text, src, first) ==
    [kind |-> kind, num |-> num, text |-> text, src |-> src, first |-> first]

EmptyRow == Row("plain", NoNum, <<>>, 0, FALSE)

\* chroma lexers.Match(filename), then lexers.Get(ext): the names the
\* viewer passes ("go", "diff", "txt") match no lexer glob such as "*.go"
\* and have no extension.
LexerNames == {"main.go", "a.diff"}

\* filepath.Ext of the file names handed to the highlighter.
FileNames == {"main.go", "a.diff", "go", "diff", "txt", "notes.zzz", "LICENSE"}

Ext(filename) ==
    CASE filename = "main.go" -> <<".", "g", "o">>
      [] filename = "a.diff" -> <<".", "d", "i", "f", "f">>
      [] filename = "notes.zzz" -> <<".", "z", "z", "z">>
      [] OTHER -> <<>>

\* lexers.Get(name): the lexers known by name or alias.
LexerAliases == {<<"g", "o">>, <<"d", "i", "f", "f">>}

lexersGet(name) == name \in LexerAliases

lexerFound(filename) ==
    \/ filename \in LexerNames
    \/ Len(Ext(filename)) > 1 /\ lexersGet(Tail(Ext(filename)))

\* What the environment fails at after the lexer is found: nothing, the
\* formatter lookup, Tokenise or Format.
Misses == {"none", "formatter", "tokenise", "format"}

Formatted(s, miss) == IF miss = "none" THEN <<ESC>> \o s \o <<ESC>> ELSE s

applySyntaxHighlightingWith(sh, s, filename, miss) ==
    IF ~sh THEN s
    ELSE IF ~lexerFound(filename) THEN s
    ELSE Formatted(s, miss)

applySyntaxHighlighting(sh, s, filename) ==
    applySyntaxHighlightingWith(sh, s, filename, "none")

\* The outcome of a call: the string returned, or a run-time panic.
Returned(t) == [kind |-> "returned", rows |-> <<t>>]

Panic == [kind |-> "panic", rows |-> <<>>]

\* applySyntaxHighlighting of the viewer that parses the diff: ext[1:] is
\* taken without a test of the length of ext.
applySyntaxHighlightingParsed(sh, s, filename, miss) ==
    IF ~sh THEN Returned(s)
    ELSE IF filename \in LexerNames THEN Returned(Formatted(s, miss))
    ELSE IF Len(Ext(filename)) < 1 THEN Panic
    ELSE IF lexersGet(Tail(Ext(filename))) THEN Returned(Formatted(s, miss))
    ELSE Returned(s)

fitToWidth(r, w) ==
    IF w <= 0 THEN [r EXCEPT !.text = <<>>]
    ELSE LET vw == PrintableRuneWidth(r.text)
         IN IF vw > w THEN [r EXCEPT !.text = Truncate(r.text, w)]
            ELSE IF vw < w THEN [r EXCEPT !.text = r.text \o Repeat(" ", w - vw)]
            ELSE r

BlankRow(w) == fitToWidth(Row("pad", NoNum, <<>>, 0, FALSE), w)

\* The single row of the "too narrow, just truncate" branch.
TruncatedRow(lineNum, head, s, kind, src, actualContentWidth) ==
    <<Row(kind, lineNum, head \o Truncate(s, actualContentWidth), src, TRUE)>>

\* The rows made of the wrapped lines ls: the first carries the line number
\* and marker (head), the others are indented by the width of head.
WrappedRows(lineNum, head, ls, kind, src) ==
    [k \in 1..Len(ls) |->
        IF k = 1 THEN Row(kind, lineNum, head \o ls[k], src, TRUE)
        ELSE Row(kind, NoNum, Repeat(" ", PrintableRuneWidth(head)) \o ls[k],
                 src, FALSE)]

\* wrapContentWithStyle once lineNumStr + prefix (head) is formatted.
WrapWithHead(lineNum, head, s, kind, src, contentWidth) ==
    IF contentWidth - PrintableRuneWidth(head) <= 10
    THEN TruncatedRow(lineNum, head, s, kind, src,
                      contentWidth - PrintableRuneWidth(head))
    ELSE WrappedRows(lineNum, head,
                     Split(WordWrap(s, contentWidth - PrintableRuneWidth(head))),
                     kind, src)

\* Rows of one classified line: line number field, marker, wrapped content.
wrapContentWithStyle(lineNum, prefix, s, kind, src, contentWidth) ==
    IF contentWidth <= 0 THEN <<Row("plain", NoNum, <<>>, src, TRUE)>>
    ELSE WrapWithHead(lineNum, Sprintf4d(lineNum) \o prefix, s, kind, src,
                      contentWidth)

(***************************************************************************)
(* Layout.                                                                 *)
(***************************************************************************)
minSideBySideWidth == 100

dividerWidth == 3

margins == 4

minColumnWidth == 40

calculatePaneWidths(w) ==
    LET maxUsableWidth == Usable90(w)
        available == maxUsableWidth - 3
        leftWidth == GoDiv(available, 2)
    IN <<leftWidth, available - leftWidth>>

\* Mutation: the narrow-terminal test uses <= instead of <.
calculateLayout_OffByOne(w) ==
    LET maxUsableWidth == Usable90(w)
        availableWidth == maxUsableWidth - margins
        contentWidth == availableWidth - dividerWidth
        leftWidth == GoDiv(contentWidth, 2)
        rightWidth == contentWidth - leftWidth
    IN IF availableWidth <= minSideBySideWidth THEN <<FALSE, availableWidth, 0>>
       ELSE IF leftWidth < minColumnWidth \/ rightWidth < minColumnWidth
            THEN <<FALSE, availableWidth, 0>>
            ELSE <<TRUE, leftWidth, rightWidth>>

\* Mutation: the narrow-terminal test is inverted.
calculateLayout_Inverted(w) ==
    LET maxUsableWidth == Usable90(w)
        availableWidth == maxUsableWidth - margins
        contentWidth == availableWidth - dividerWidth
        leftWidth == GoDiv(contentWidth, 2)
        rightWidth == contentWidth - leftWidth
    IN IF availableWidth > minSideBySideWidth THEN <<FALSE, availableWidth, 0>>
       ELSE IF leftWidth < minColumnWidth \/ rightWidth < minColumnWidth
            THEN <<FALSE, availableWidth, 0>>
            ELSE <<TRUE, leftWidth, rightWidth>>

calculateLayout(w) ==
    LET maxUsableWidth == Usable90(w)
        availableWidth == maxUsableWidth - margins
        contentWidth == availableWidth - dividerWidth
        leftWidth == GoDiv(contentWidth, 2)
        rightWidth == contentWidth - leftWidth
    IN IF availableWidth < minSideBySideWidth THEN <<FALSE, availableWidth, 0>>
       ELSE IF leftWidth < minColumnWidth \/ rightWidth < minColumnWidth
            THEN <<FALSE, availableWidth, 0>>
            ELSE <<TRUE, leftWidth, rightWidth>>

(***************************************************************************)
(* renderSideBySidePanes: the two row sequences built from the split diff  *)
(* text.                                                                   *)
(***************************************************************************)
StripPrefix(line) == IF Len(line) > 1 THEN SubSeq(line, 2, Len(line)) ELSE <<>>

\* The whitespace-only test applied to a deletion or addition line.
SkipWhitespaceOnly(sw, s) == ~sw /\ s # <<>> /\ TrimsToEmpty(s)

\* The rows of one line of a run put before the rows of the lines after it;
\* a skipped line only advances the counter.
RunRows(skip, rows, rest) ==
    IF skip THEN rest ELSE [rows |-> rows \o rest.rows, num |-> rest.num]

\* The "Handle all deletions" / "Handle all additions" loops: lines[from..to)
\* rendered with marker prefix at pane width w, numbered from num.
RECURSIVE RenderRun(_, _, _, _, _, _, _, _, _)
RenderRun(lines, from, to, num, prefix, kind, w, sh, sw) ==
    IF from >= to THEN [rows |-> <<>>, num |-> num]
    ELSE RunRows(SkipWhitespaceOnly(sw, StripPrefix(lines[from])),
                 wrapContentWithStyle(num, prefix,
                     applySyntaxHighlighting(sh, StripPrefix(lines[from]), "go"),
                     kind, from, w),
                 RenderRun(lines, from + 1, to, num + 1, prefix, kind, w, sh, sw))

\* First index >= k whose line does not start with the rune c.
RECURSIVE RunEnd(_, _, _)
RunEnd(lines, k, c) ==
    IF k <= Len(lines) /\ HasPrefix(lines[k], <<c>>) THEN RunEnd(lines, k + 1, c)
    ELSE k

\* Mutation: the shorter side is not padded.
PadRows_NoPadding(rows, n, w) == rows

\* Mutation: the blank rows are put before the rendered rows.
PadRows_PadFront(rows, n, w) == [k \in 1..(n - Len(rows)) |-> BlankRow(w)] \o rows

\* "Pad shorter side with empty lines": rows extended to n rows.
PadRows(rows, n, w) == rows \o [k \in 1..(n - Len(rows)) |-> BlankRow(w)]

IsHunkHeader(line) == HasPrefix(line, <<"@", "@">>)

IsFileHeader(line) ==
    \/ HasPrefix(line, <<"-", "-", "-">>)
    \/ HasPrefix(line, <<"+", "+", "+">>)
    \/ HasPrefix(line, <<"d", "i", "f", "f", " ", "-", "-", "g", "i", "t">>)

\* The counters after the fields of a hunk header "@@ -a,b +c,d @@".
HunkCounters(st, parts) ==
    [st EXCEPT
       !.oldStart = IF Len(parts) >= 3 /\ HasPrefix(parts[2], <<"-">>)
                    THEN Sscanf(parts[2], "-", st.oldStart) ELSE st.oldStart,
       !.newStart = IF Len(parts) >= 3 /\ HasPrefix(parts[3], <<"+">>)
                    THEN Sscanf(parts[3], "+", st.newStart) ELSE st.newStart,
       !.leftLineNum = IF Len(parts) >= 3 /\ HasPrefix(parts[2], <<"-">>)
                       THEN Sscanf(parts[2], "-", st.oldStart) ELSE st.leftLineNum,
       !.rightLineNum = IF Len(parts) >= 3 /\ HasPrefix(parts[3], <<"+">>)
                        THEN Sscanf(parts[3], "+", st.newStart) ELSE st.rightLineNum]

\* The hunk-header branch: the start values are parsed into the counters.
ParseHunkHeader(st, line) == HunkCounters(st, Fields(line))

\* A header line goes to both sides, fitted, without line number.
HeaderRows(st, kind, line, lw, rw) ==
    [st EXCEPT
       !.i = st.i + 1,
       !.left = Append(st.left, fitToWidth(Row(kind, NoNum, line, st.i, TRUE), lw)),
       !.right = Append(st.right, fitToWidth(Row(kind, NoNum, line, st.i, TRUE), rw))]

\* "Balance wrapped lines and add them to main arrays": l and r are the
\* rows rendered for the two sides of a block.
BalancedBlock(st, next, l, r, leftNum, rightNum, lw, rw) ==
    [st EXCEPT
       !.i = next,
       !.left = st.left \o PadRows(l, Max(Len(l), Len(r)), lw),
       !.right = st.right \o PadRows(r, Max(Len(l), Len(r)), rw),
       !.leftLineNum = leftNum,
       !.rightLineNum = rightNum]

\* The deletion run lines[i..j) with the addition run lines[j..k) after it.
RunBlock(st, k, dels, adds, lw, rw) ==
    BalancedBlock(st, k, dels.rows, adds.rows, dels.num, adds.num, lw, rw)

DeletionBranch(st, lines, j, k, lw, rw, sh, sw) ==
    RunBlock(st, k,
             RenderRun(lines, st.i, j, st.leftLineNum, <<" ", "|", " ", "-">>,
                       "delete", lw, sh, sw),
             RenderRun(lines, j, k, st.rightLineNum, <<" ", "|", " ", "+">>,
                       "add", rw, sh, sw),
             lw, rw)

\* A context line: the same content wrapped for each side.
ContextBranch(st, s, lw, rw) ==
    BalancedBlock(st, st.i + 1,
                  wrapContentWithStyle(st.leftLineNum, <<" ", "|", " ", " ">>, s,
                                       "context", st.i, lw),
                  wrapContentWithStyle(st.rightLineNum, <<" ", "|", " ", " ">>, s,
                                       "context", st.i, rw),
                  st.leftLineNum + 1, st.rightLineNum + 1, lw, rw)

\* One iteration of the loop over lines.
PaneStep(st, lines, lw, rw, sh, sw) ==
    IF lines[st.i] = <<>> THEN [st EXCEPT !.i = st.i + 1]
    ELSE IF IsHunkHeader(lines[st.i]) THEN
        HeaderRows(ParseHunkHeader(st, lines[st.i]), "hunk", lines[st.i], lw, rw)
    ELSE IF IsFileHeader(lines[st.i]) THEN
        HeaderRows(st, "file", lines[st.i], lw, rw)
    ELSE IF HasPrefix(lines[st.i], <<"-">>) THEN
        DeletionBranch(st, lines, RunEnd(lines, st.i, "-"),
                       RunEnd(lines, RunEnd(lines, st.i, "-"), "+"), lw, rw, sh, sw)
    ELSE IF HasPrefix(lines[st.i], <<" ">>) THEN
        ContextBranch(st, applySyntaxHighlighting(sh, StripPrefix(lines[st.i]), "go"),
                      lw, rw)
    ELSE [st EXCEPT !.i = st.i + 1]

RECURSIVE PaneLoop(_, _, _, _, _, _)
PaneLoop(st, lines, lw, rw, sh, sw) ==
    IF st.i > Len(lines) THEN st
    ELSE PaneLoop(PaneStep(st, lines, lw, rw, sh, sw), lines, lw, rw, sh, sw)

\* "Balance the lines": the final padding of the shorter side.
BalancedPanes(l, r, lw, rw) ==
    [left |-> PadRows(l, Max(Len(l), Len(r)), lw),
     right |-> PadRows(r, Max(Len(l), Len(r)), rw)]

PanesOf(st, lw, rw) == BalancedPanes(st.left, st.right, lw, rw)

PanesAtWidths(lines, lw, rw, sh, sw) ==
    PanesOf(PaneLoop([i |-> 1, left |-> <<>>, right |-> <<>>,
                      leftLineNum |-> 1, rightLineNum |-> 1,
                      oldStart |-> 0, newStart |-> 0],
                     lines, lw, rw, sh, sw),
            lw, rw)

\* The rows handed to leftViewport.SetContent and rightViewport.SetContent.
renderSideBySidePanes(c, w, sh, sw) ==
    PanesAtWidths(Split(c), calculatePaneWidths(w)[1], calculatePaneWidths(w)[2],
                  sh, sw)

(***************************************************************************)
(* buildSideBySideLines: rows built from an edit script.  An edit is       *)
(* [Start, End, New] with byte offsets into the original text.             *)
(***************************************************************************)
\* Mutation: a line that starts at the offset is counted as before it.
RECURSIVE countLinesLoop_Past(_, _, _, _)
countLinesLoop_Past(lines, offset, i, currentOffset) ==
    IF i > Len(lines) THEN Len(lines)
    ELSE IF currentOffset > offset THEN i - 1
    ELSE countLinesLoop_Past(lines, offset, i + 1, currentOffset + Len(lines[i]) + 1)

\* countLines(lines, offset) over lines[from..], with 0-based result.
RECURSIVE countLinesLoop(_, _, _, _)
countLinesLoop(lines, offset, i, currentOffset) ==
    IF i > Len(lines) THEN Len(lines)
    ELSE IF currentOffset >= offset THEN i - 1
    ELSE countLinesLoop(lines, offset, i + 1, currentOffset + Len(lines[i]) + 1)

countLines(lines, offset) == countLinesLoop(lines, offset, 1, 0)

\* strings.Count(s, "\n")
CountNewlines(s) == Cardinality({k \in 1..Len(s) : s[k] = "\n"})

\* lines[from:] of a Go slice (from is 0-based).
SliceFrom(lines, from) == SubSeq(lines, from + 1, Len(lines))

\* Mutation: the added lines are put beside the removed lines.
EditRows_Beside(st, upto, n, nd, kept, originalLines, sh) ==
    [left |-> st.left
              \o [k \in 1..(Min(upto, n) - st.originalOffset) |->
                    Row("context", NoNum,
                        <<" ">> \o applySyntaxHighlighting(sh,
                                       originalLines[st.originalOffset + k], "txt"),
                        st.originalOffset + k, TRUE)]
              \o [k \in 1..nd |->
                    Row("delete", NoNum, <<"-">> \o originalLines[upto + k],
                        upto + k, TRUE)]
              \o [k \in 1..Len(kept) |-> EmptyRow],
     right |-> st.right
              \o [k \in 1..(Min(upto, n) - st.originalOffset) |->
                    Row("context", NoNum,
                        <<" ">> \o applySyntaxHighlighting(sh,
                                       originalLines[st.originalOffset + k], "txt"),
                        st.originalOffset + k, TRUE)]
              \o [k \in 1..Len(kept) |->
                    Row("add", NoNum, <<"+">> \o kept[k], 0, TRUE)]
              \o [k \in 1..nd |-> EmptyRow]]

\* The rows one edit adds, given the first line after the unchanged lines
\* (upto), the number of deleted lines that exist (nd) and the new lines
\* that are kept.
EditRows(st, upto, n, nd, kept, originalLines, sh) ==
    [left |-> st.left
              \o [k \in 1..(Min(upto, n) - st.originalOffset) |->
                    Row("context", NoNum,
                        <<" ">> \o applySyntaxHighlighting(sh,
                                       originalLines[st.originalOffset + k], "txt"),
                        st.originalOffset + k, TRUE)]
              \o [k \in 1..nd |->
                    Row("delete", NoNum, <<"-">> \o originalLines[upto + k],
                        upto + k, TRUE)]
              \o [k \in 1..Len(kept) |-> EmptyRow],
     right |-> st.right
              \o [k \in 1..(Min(upto, n) - st.originalOffset) |->
                    Row("context", NoNum,
                        <<" ">> \o applySyntaxHighlighting(sh,
                                       originalLines[st.originalOffset + k], "txt"),
                        st.originalOffset + k, TRUE)]
              \o [k \in 1..nd |-> EmptyRow]
              \o [k \in 1..Len(kept) |->
                    Row("add", NoNum, <<"+">> \o kept[k], 0, TRUE)]]

\* The new lines of an edit that get a row: none for an empty replacement,
\* otherwise every line of it unless it is a single empty line.
KeptNewLines(new, newContentLines) ==
    IF new = <<>> THEN <<>>
    ELSE SelectSeq(newContentLines,
                   LAMBDA l : l # <<>> \/ Len(newContentLines) > 1)

\* One edit with its line positions: originalStart lines precede it and it
\* covers editOriginalLines lines.
EditAt(st, edit, originalStart, editOriginalLines, originalLines, sh) ==
    EditRows(st, Max(st.originalOffset, originalStart), Len(originalLines),
             Max(0, Min(editOriginalLines,
                        Len(originalLines) - Max(st.originalOffset, originalStart))),
             KeptNewLines(edit.New, Split(edit.New)), originalLines, sh)
    @@ [originalOffset |-> Max(st.originalOffset, originalStart) + editOriginalLines]

EditFrom(st, edit, originalStart, originalLines, sh) ==
    EditAt(st, edit, originalStart,
           countLines(SliceFrom(originalLines, originalStart), edit.End - edit.Start),
           originalLines, sh)

\* The body of the loop over edits: st holds leftLines, rightLines and
\* originalOffset.
BuildEdit(st, edit, originalLines, sh) ==
    EditFrom(st, edit, countLines(originalLines, edit.Start), originalLines, sh)

RECURSIVE BuildLoop(_, _, _, _, _)
BuildLoop(st, edits, k, originalLines, sh) ==
    IF k > Len(edits) \/ st.originalOffset < 0 THEN st
    ELSE BuildLoop(BuildEdit(st, edits[k], originalLines, sh), edits, k + 1,
                   originalLines, sh)

\* "Add remaining unchanged lines".
WithRemaining(st, originalLines) ==
    [left |-> st.left
              \o [k \in 1..(Len(originalLines) - st.originalOffset) |->
                    Row("context", NoNum,
                        <<" ">> \o originalLines[st.originalOffset + k],
                        st.originalOffset + k, TRUE)],
     right |-> st.right
              \o [k \in 1..(Len(originalLines) - st.originalOffset) |->
                    Row("context", NoNum,
                        <<" ">> \o originalLines[st.originalOffset + k],
                        st.originalOffset + k, TRUE)]]

buildSideBySideLines(edits, originalLines, sh) ==
    WithRemaining(BuildLoop([left |-> <<>>, right |-> <<>>, originalOffset |-> 0],
                            edits, 1, originalLines, sh),
                  originalLines)

(***************************************************************************)
(* bubbles viewport.Model: Width, Height, YOffset and the content lines.   *)
(***************************************************************************)
viewportNew == [Width |-> 0, Height |-> 0, YOffset |-> 0, lines |-> <<>>]

maxYOffset(vp) == Max(0, Len(vp.lines) - vp.Height)

SetYOffset(vp, n) == [vp EXCEPT !.YOffset = Max(0, Min(n, maxYOffset(vp)))]

\* The check at the end of SetContent: an offset past the last line goes to
\* the bottom.
ClampToContent(v) ==
    IF v.YOffset > Len(v.lines) - 1 THEN SetYOffset(v, maxYOffset(v)) ELSE v

\* SetContent(strings.Join(rows, "\n")): the content is split into lines
\* again (no rows give one empty line).
SetContent(vp, rows) ==
    ClampToContent([vp EXCEPT !.lines = IF rows = <<>> THEN <<EmptyRow>> ELSE rows])

LineDown(vp, n) ==
    IF vp.YOffset >= maxYOffset(vp) \/ n = 0 \/ Len(vp.lines) = 0 THEN vp
    ELSE SetYOffset(vp, vp.YOffset + n)

LineUp(vp, n) ==
    IF vp.YOffset <= 0 \/ n = 0 \/ Len(vp.lines) = 0 THEN vp
    ELSE SetYOffset(vp, vp.YOffset - n)

\* viewport.Update(msg): "j" and "k" scroll by one line, the other messages
\* of the model are not bound in the viewport key map.
viewportUpdate(vp, msg) ==
    IF msg = "j" THEN LineDown(vp, 1)
    ELSE IF msg = "k" THEN LineUp(vp, 1)
    ELSE vp

(***************************************************************************)
(* Inputs: diff texts, terminal sizes.                                     *)
(***************************************************************************)
\* a replaced block between two context lines, with file headers
DiffReplace ==
    Join(<<<<"-", "-", "-", " ", "a", "/", "f">>,
           <<"+", "+", "+", " ", "b", "/", "f">>,
           <<"@", "@", " ", "-", "1", ",", "4", " ", "+", "1", ",", "3", " ", "@", "@">>,
           <<" ", "c", "t", "x">>,
           <<"-", "o", "l", "d", " ", "o", "n", "e">>,
           <<"-", "o", "l", "d", " ", "t", "w", "o">>,
           <<"+", "n", "e", "w">>,
           <<" ", "e", "n", "d">>>>)

\* an addition that follows a context line
DiffPureAdd ==
    Join(<<<<"@", "@", " ", "-", "3", ",", "2", " ", "+", "3", ",", "3", " ", "@", "@">>,
           <<" ", "a">>,
           <<"+", "b">>,
           <<" ", "c">>>>)

\* whitespace-only and empty deletions, additions and context
DiffWhitespace ==
    Join(<<<<"@", "@", " ", "-", "1", ",", "3", " ", "+", "1", ",", "3", " ", "@", "@">>,
           <<"-", "\t">>,
           <<"-">>,
           <<"-", "x">>,
           <<"+", " ", " ">>,
           <<"+">>,
           <<"+", "y">>,
           <<" ">>>>)

\* hunk headers whose start values do not parse
DiffBadHeader ==
    Join(<<<<"@", "@", " ", "-", "a", ",", "1", " ", "+", "b", ",", "1", " ", "@", "@">>,
           <<"-", "x">>,
           <<"+", "y">>,
           <<"@", "@", " ", "-", "7", " ", "+", "9", " ", "@", "@">>,
           <<" ", "z">>,
           <<"@", "@", " ", "-", "c", " ", "+", "d", " ", "@", "@">>,
           <<"-", "p">>,
           <<"@", "@", " ", "b", "a", "d">>,
           <<"+", "q">>>>)

\* lines longer than a narrow pane
DiffLong ==
    Join(<<<<"@", "@", " ", "-", "1", "2", ",", "2", " ", "+", "1", "2", ",", "2", " ", "@", "@">>,
           <<" ", "a", "l", "p", "h", "a", " ", "g", "a", "m", "m", "a", "s", " ", "d", "e", "l", "t", "a">>,
           <<"-", "a", "v", "e", "r", "y", "v", "e", "r", "y", "v", "e", "r", "y", "l", "o", "n", "g", "w", "o", "r", "d", "w", "i", "t", "h", "o", "u", "t", "b", "r", "e", "a", "k">>,
           <<"+", "s", "h", "o", "r", "t">>>>)

NoDiffContent == <<"N", "o", " ", "d", "i", "f", "f", " ", "c", "o", "n", "t", "e", "n", "t", " ", "t", "o", " ", "d", "i", "s", "p", "l", "a", "y">>

ErrorParsingDiff == <<"E", "r", "r", "o", "r", " ", "p", "a", "r", "s", "i", "n", "g", " ", "d", "i", "f", "f", ":", " ">>

\* Rows of a text shown as it is (unified view, messages).
RowsOfLines(ls) == [k \in 1..Len(ls) |-> Row("plain", NoNum, ls[k], k, TRUE)]

PlainRows(c) == RowsOfLines(Split(c))

Contents == {<<>>, DiffReplace, DiffPureAdd, DiffWhitespace, DiffBadHeader, DiffLong}

Widths == {47, 120}

Heights == {9}

\* Original texts and edit scripts handed to buildSideBySideLines: up to
\* MaxEdits edits, ordered and separated as udiff produces them.
OrigAB == <<"a", "\n", "b">>

Originals == {<<>>, OrigAB}

NewTexts == {<<>>, <<"x">>, <<"x", "\n">>}

MaxEdits == 2

EditsOf(orig) ==
    [Start : 0..Len(orig), End : 0..Len(orig), New : NewTexts]

EditScripts(orig) ==
    {es \in UNION {[1..n -> EditsOf(orig)] : n \in 0..MaxEdits} :
        /\ \A k \in 1..Len(es) : es[k].Start <= es[k].End
        /\ \A k \in 1..(Len(es) - 1) : es[k].End < es[k + 1].Start
        /\ Len(es) > 1 => \A k \in 1..Len(es) : Len(es[k].New) <= 1}

NoText == [kind |-> "none", rows |-> <<>>]

\* built records the last call on an edit script: which call it was, its
\* inputs and what it returned.
NoBuild ==
    [left |-> <<>>, right |-> <<>>, done |-> FALSE, call |-> "none",
     orig |-> <<>>, edits |-> <<>>, revised |-> <<>>, name |-> "", miss |-> "none",
     args |-> <<>>, text |-> NoText]

\* The two results of a call, recorded.
Built(r) ==
    [NoBuild EXCEPT !.left = r.left, !.right = r.right, !.done = TRUE, !.call = "build"]

UnifiedMode == "Unified"

SideBySideMode == "SideBySide"

(***************************************************************************)
(* DiffViewer.                                                             *)
(***************************************************************************)
\* The same message in all three viewports.
SetAll(rows, lv, rv, uv) ==
    [l |-> SetContent(lv, rows), r |-> SetContent(rv, rows), u |-> SetContent(uv, rows)]

SetPanes(p, lv, rv, uv) ==
    [l |-> SetContent(lv, p.left), r |-> SetContent(rv, p.right), u |-> uv]

\* renderDiff: the three viewports after rendering.
renderDiff(m, c, w, sh, sw, e, lv, rv, uv) ==
    IF e THEN SetAll(PlainRows(ErrorParsingDiff), lv, rv, uv)
    ELSE IF c = <<>> THEN SetAll(PlainRows(NoDiffContent), lv, rv, uv)
    ELSE IF m = SideBySideMode
         THEN SetPanes(renderSideBySidePanes(c, w, sh, sw), lv, rv, uv)
         ELSE [l |-> lv, r |-> rv,
               u |-> SetContent(uv, PlainRows(applySyntaxHighlighting(sh, c, "diff")))]

\* Mutation: the right pane is given the offset the left pane had before
\* the message.
SyncRight_StaleOffset(sync, l0, l1, r1) ==
    IF sync /\ l1.YOffset # l0.YOffset THEN [r1 EXCEPT !.YOffset = l0.YOffset] ELSE r1

\* Synchronised scrolling: l0, r0 are the panes before the message, l1, r1
\* after it; the right pane follows the left one first.
SyncRight(sync, l0, l1, r1) ==
    IF sync /\ l1.YOffset # l0.YOffset THEN [r1 EXCEPT !.YOffset = l1.YOffset] ELSE r1

SyncLeft(sync, r0, l1, r2) ==
    IF sync /\ r2.YOffset # r0.YOffset THEN [l1 EXCEPT !.YOffset = r2.YOffset] ELSE l1

SyncPanes(sync, l0, r0, l1, r2, u) ==
    [l |-> SyncLeft(sync, r0, l1, r2), r |-> r2, u |-> u]

UpdatedPanes(sync, l0, r0, l1, r1, u) ==
    SyncPanes(sync, l0, r0, l1, SyncRight(sync, l0, l1, r1), u)

\* The end of Update: the message is passed to the viewports of the current
\* mode, then the offsets are synchronised.
UpdateViewports(msg, m, sync, v) ==
    IF m = SideBySideMode
    THEN UpdatedPanes(sync, v.l, v.r, viewportUpdate(v.l, msg),
                      viewportUpdate(v.r, msg), v.u)
    ELSE [l |-> v.l, r |-> v.r, u |-> viewportUpdate(v.u, msg)]

Viewports == [l |-> leftViewport, r |-> rightViewport, u |-> unifiedViewport]

SetViewports(v) ==
    /\ leftViewport' = v.l
    /\ rightViewport' = v.r
    /\ unifiedViewport' = v.u

\* NewDiffViewer(content, sideBySide, syntaxHighlight, showWhitespace)
InitViewer ==
    /\ content \in Contents
    /\ mode \in {UnifiedMode, SideBySideMode}
    /\ syntaxHighlight \in BOOLEAN
    /\ showWhitespace \in BOOLEAN
    /\ scrollSync = TRUE
    /\ width = 0
    /\ height = 0
    /\ err = FALSE
    /\ leftViewport = viewportNew
    /\ rightViewport = viewportNew
    /\ unifiedViewport = viewportNew
    /\ quit = FALSE

\* No selection TUI.  state is the view, cmds the commands that run and
\* have not delivered their message yet, saved the outcome of the last
\* savePRDescription that finished; crashed is set by a panic.
NoTui ==
    [state |-> "none", loaded |-> FALSE, hasStaged |-> FALSE, activeSide |-> "current",
     selectedCurrent |-> <<>>, selectedIncoming |-> <<>>, diff |-> <<>>,
     commitMessage |-> <<>>, prDescription |-> <<>>, err |-> FALSE, cmds |-> <<>>,
     outPR |-> <<>>, saved |-> [outcome |-> "none", name |-> <<>>],
     quit |-> FALSE, crashed |-> FALSE]

\* No non-interactive run: nothing read, called, printed or written.
NoRun ==
    [pc |-> "none", refCurrent |-> "", refIncoming |-> "", flagOutPR |-> <<>>,
     outPR |-> <<>>, diff |-> <<>>, calls |-> 0, result |-> NoText, stdout |-> <<>>,
     files |-> {}, failed |-> "none"]

\* The package variable systemPrompt as its parts, the embedded prompt
\* first, and the calls of GenerateCommitAndPRWithModel made so far.
BasePrompt == <<"base">>

NoApi == [systemPrompt |-> BasePrompt, prTemplate |-> FALSE, calls |-> <<>>]

\* Nothing but the diff viewer runs: no selection TUI, no non-interactive
\* run and no generation request.
ViewerOnly == tui = NoTui /\ run = NoRun /\ api = NoApi

Init == InitViewer /\ built = NoBuild /\ ViewerOnly

Running == ~quit

\* The viewport dimensions set by a resize, by mode.
Resized(m, w, h, lv, rv, uv) ==
    IF m = SideBySideMode
    THEN [l |-> [lv EXCEPT !.Width = calculatePaneWidths(w)[1], !.Height = h - 6],
          r |-> [rv EXCEPT !.Width = calculatePaneWidths(w)[2], !.Height = h - 6],
          u |-> uv]
    ELSE [l |-> lv, r |-> rv,
          u |-> [uv EXCEPT !.Width = w - 4, !.Height = h - 6]]

\* Mutation: the rendering uses the width stored before the message.
RenderInto_StaleWidth(v, m, c, w, sh, sw, e) ==
    renderDiff(m, c, width, sh, sw, e, v.l, v.r, v.u)

RenderInto(v, m, c, w, sh, sw, e) == renderDiff(m, c, w, sh, sw, e, v.l, v.r, v.u)

\* Update(tea.WindowSizeMsg{w, h})
WindowSize(w, h) ==
    /\ Running
    /\ width' = w
    /\ height' = h
    /\ SetViewports(UpdateViewports("resize", mode, scrollSync,
          RenderInto(Resized(mode, w, h, leftViewport, rightViewport, unifiedViewport),
                     mode, content, w, syntaxHighlight, showWhitespace, err)))
    /\ UNCHANGED <<quit, built, content, tui, run, api, syntaxHighlight, showWhitespace, err, mode,
                   scrollSync>>

\* Mutation: the quit key falls through to the mode toggle.
KeyQ_FallsThrough ==
    /\ Running
    /\ quit' = TRUE
    /\ mode' = UnifiedMode
    /\ UNCHANGED <<built, content, tui, run, api, syntaxHighlight, showWhitespace, width, height, err,
                   scrollSync, leftViewport, rightViewport, unifiedViewport>>

\* Update(KeyMsg "q" / "ctrl+c"): returns tea.Quit before anything else.
KeyQ ==
    /\ Running
    /\ quit' = TRUE
    /\ UNCHANGED <<built, content, tui, run, api, syntaxHighlight, showWhitespace, width, height, err,
                   mode, scrollSync, leftViewport, rightViewport, unifiedViewport>>

\* Mutation: the key always selects side-by-side.
ToggleMode_AlwaysSideBySide(m) == SideBySideMode

ToggleMode(m) == IF m = SideBySideMode THEN UnifiedMode ELSE SideBySideMode

\* Update(KeyMsg "s")
KeyS ==
    /\ Running
    /\ mode' = ToggleMode(mode)
    /\ SetViewports(UpdateViewports("s", mode', scrollSync,
          RenderInto(Viewports, mode', content, width, syntaxHighlight,
                     showWhitespace, err)))
    /\ UNCHANGED <<quit, built, content, tui, run, api, syntaxHighlight, showWhitespace, width, height, err,
                   scrollSync>>

\* Update(KeyMsg "h")
KeyH ==
    /\ Running
    /\ syntaxHighlight' = ~syntaxHighlight
    /\ SetViewports(UpdateViewports("h", mode, scrollSync,
          RenderInto(Viewports, mode, content, width, syntaxHighlight',
                     showWhitespace, err)))
    /\ UNCHANGED <<quit, built, content, tui, run, api, showWhitespace, width, height, err, mode, scrollSync>>

\* Mutation: the flag is flipped in every mode.
ToggleScrollSync_AnyMode(m, sync) == ~sync

ToggleScrollSync(m, sync) == IF m = SideBySideMode THEN ~sync ELSE sync

\* Update(KeyMsg "y")
KeyY ==
    /\ Running
    /\ scrollSync' = ToggleScrollSync(mode, scrollSync)
    /\ SetViewports(UpdateViewports("y", mode, scrollSync', Viewports))
    /\ UNCHANGED <<quit, built, content, tui, run, api, syntaxHighlight, showWhitespace, width, height, err, mode>>

\* Update(KeyMsg "w")
KeyW ==
    /\ Running
    /\ showWhitespace' = ~showWhitespace
    /\ SetViewports(UpdateViewports("w", mode, scrollSync,
          RenderInto(Viewports, mode, content, width, syntaxHighlight,
                     showWhitespace', err)))
    /\ UNCHANGED <<quit, built, content, tui, run, api, syntaxHighlight, width, height, err, mode, scrollSync>>

\* Update(KeyMsg "j" / "k"): no case of the key switch, only the viewports.
KeyScroll(key) ==
    /\ Running
    /\ SetViewports(UpdateViewports(key, mode, scrollSync, Viewports))
    /\ UNCHANGED <<quit, built, content, tui, run, api, syntaxHighlight, showWhitespace, width, height, err,
                   mode, scrollSync>>

ScrollRoom ==
    IF mode = SideBySideMode
    THEN leftViewport.YOffset < MaxScroll /\ rightViewport.YOffset < MaxScroll
    ELSE unifiedViewport.YOffset < MaxScroll

KeyJ == ScrollRoom /\ KeyScroll("j")

KeyK == KeyScroll("k")

\* A call of buildSideBySideLines(edits, strings.Split(orig, "\n"), ...) on
\* the viewer; its two results are kept in built.
BuildFromEdits(orig, edits) ==
    /\ Running
    /\ built' = Built(buildSideBySideLines(edits, Split(orig), syntaxHighlight))
    /\ UNCHANGED <<quit, content, tui, run, api, syntaxHighlight, showWhitespace, width, height,
                   err, mode, scrollSync, leftViewport, rightViewport,
                   unifiedViewport>>

(***************************************************************************)
(* View: the frame as a record.  layout tells which branch wrote the body  *)
(* ("error", "panes" or "unified"), actualMode and requestedMode are the   *)
(* labels of the subtitle, rows the lines of the body.                     *)
(***************************************************************************)
\* viewport.View(): Height lines from YOffset on, blank past the content.
viewportView(vp) ==
    [k \in 1..Max(vp.Height, 0) |->
        IF vp.YOffset + k <= Len(vp.lines) THEN vp.lines[vp.YOffset + k].text
        ELSE <<>>]

IsBlankText(t) == \A k \in 1..Len(t) : IsSpace(t[k])

\* "Remove empty trailing lines"
TrimTrailing(ls) ==
    SubSeq(ls, 1, Cardinality({k \in 1..Len(ls) :
                                  \E x \in k..Len(ls) : ~IsBlankText(ls[x])}))

PaneLine(ls, i) == IF i <= Len(ls) THEN ls[i] ELSE <<>>

FitText(t, w) == fitToWidth(Row("plain", NoNum, t, 0, TRUE), w).text

\* The lines of the two panes joined by the divider.
JoinedRows(l, r, lw, rw) ==
    [i \in 1..Max(Len(l), Len(r)) |->
        FitText(PaneLine(l, i), lw) \o <<" ", "|", " ">> \o FitText(PaneLine(r, i), rw)]

ActualMode(m, w) ==
    IF m # SideBySideMode THEN "unified"
    ELSE IF calculateLayout(w)[1] THEN "side-by-side"
    ELSE "unified (auto)"

RequestedMode(m) == IF m = SideBySideMode THEN "side-by-side" ELSE "unified"

ErrorFrame ==
    [layout |-> "error", actualMode |-> "", requestedMode |-> "", rows |-> <<>>]

View ==
    IF err THEN ErrorFrame
    ELSE IF mode = SideBySideMode
    THEN [layout |-> "panes",
          actualMode |-> ActualMode(mode, width),
          requestedMode |-> RequestedMode(mode),
          rows |-> JoinedRows(TrimTrailing(viewportView(leftViewport)),
                              TrimTrailing(viewportView(rightViewport)),
                              calculatePaneWidths(width)[1],
                              calculatePaneWidths(width)[2])]
    ELSE [layout |-> "unified",
          actualMode |-> ActualMode(mode, width),
          requestedMode |-> RequestedMode(mode),
          rows |-> viewportView(unifiedViewport)]

Next ==
    \/ \E w \in Widths, h \in Heights : WindowSize(w, h)
    \/ KeyQ
    \/ KeyS
    \/ KeyH
    \/ KeyY
    \/ KeyW
    \/ KeyJ
    \/ KeyK

Spec == Init /\ [][Next]_vars

(***************************************************************************)
(* The pane builders alone: a viewer constructed in side-by-side mode that *)
(* is resized, has its whitespace flag toggled and builds rows from edit   *)
(* scripts.                                                                *)
(***************************************************************************)
InitPanes == Init /\ mode = SideBySideMode

NextPanes ==
    \/ \E w \in Widths, h \in Heights : WindowSize(w, h)
    \/ KeyW
    \/ \E orig \in Originals : \E edits \in EditScripts(orig) :
          BuildFromEdits(orig, edits)

SpecPanes == InitPanes /\ [][NextPanes]_vars

(***************************************************************************)
(* The key handling of the viewer on an empty diff, a replacement and an   *)
(* addition, under every message of the viewer.                            *)
(***************************************************************************)
KeyContents == {<<>>, DiffReplace, DiffPureAdd}

InitKeys == Init /\ content \in KeyContents

SpecKeys == InitKeys /\ [][Next]_vars

(***************************************************************************)
(* The viewer whose constructor parses the diff (gitdiff.Parse) and keeps  *)
(* the parse error; its Update is the same code.  gitdiff.Parse rejects a  *)
(* file whose hunk header declares other line counts than the hunk has.    *)
(***************************************************************************)
\* a hunk that declares three old lines and has one
DiffMiscount ==
    Join(<<<<"-", "-", "-", " ", "a", "/", "f">>,
           <<"+", "+", "+", " ", "b", "/", "f">>,
           <<"@", "@", " ", "-", "1", ",", "3", " ", "+", "1", ",", "1", " ", "@", "@">>,
           <<"-", "x">>>>)

\* The line count of a range "-<start>,<count>"; 1 without ",<count>".
RangeCount(field) ==
    IF \E k \in 1..Len(field) : field[k] = ","
    THEN ScanDigits(field, 1 + CHOOSE k \in 1..Len(field) :
                                  field[k] = "," /\ \A x \in 1..(k - 1) : field[x] # ",",
                    0, 0).val
    ELSE 1

\* The number of lines of the hunk after line i that start with " " or c.
HunkLines(lines, i, c) ==
    Cardinality({k \in (i + 1)..Len(lines) :
                    /\ HasPrefix(lines[k], <<" ">>) \/ HasPrefix(lines[k], <<c>>)
                    /\ \A x \in (i + 1)..k : ~IsHunkHeader(lines[x])})

Miscounted(lines, i, fields) ==
    /\ Len(fields) >= 3
    /\ \/ RangeCount(fields[2]) # HunkLines(lines, i, "-")
       \/ RangeCount(fields[3]) # HunkLines(lines, i, "+")

ParseFails(lines) ==
    /\ \E i \in 1..Len(lines) : IsFileHeader(lines[i])
    /\ \E i \in 1..Len(lines) :
          IsHunkHeader(lines[i]) /\ Miscounted(lines, i, Fields(lines[i]))

\* err != nil after gitdiff.Parse(strings.NewReader(content))
gitdiffParseFails(c) == ParseFails(Split(c))

ParsedContents == {DiffReplace, DiffMiscount}

\* NewDiffViewer of the parsing viewer, for a diff that does not parse.
InitErr ==
    /\ content \in {c \in ParsedContents : gitdiffParseFails(c)}
    /\ mode \in {UnifiedMode, SideBySideMode}
    /\ syntaxHighlight \in BOOLEAN
    /\ showWhitespace \in BOOLEAN
    /\ scrollSync = TRUE
    /\ width = 0
    /\ height = 0
    /\ err = TRUE
    /\ leftViewport = viewportNew
    /\ rightViewport = viewportNew
    /\ unifiedViewport = viewportNew
    /\ quit = FALSE
    /\ built = NoBuild
    /\ ViewerOnly

SpecErr == InitErr /\ [][Next]_vars

\* Both viewers: with and without a parse error.
InitQuit == InitKeys \/ InitErr

SpecQuit == InitQuit /\ [][Next]_vars

(***************************************************************************)
(* The layout planner alone: a viewer without diff content that is resized *)
(* to every width up to MaxWidth.                                          *)
(***************************************************************************)
InitLayout == Init /\ content = <<>>

NextLayout == \E w \in 0..MaxWidth, h \in Heights : WindowSize(w, h)

SpecLayout == InitLayout /\ [][NextLayout]_vars

(***************************************************************************)
(* Edit scripts: udiff.Strings and udiff.Apply as GetStagedFileEdits and   *)
(* renderSideBySideFromEdits call them.  A text is a sequence of bytes; a  *)
(* two-byte rune is its lead byte followed by a continuation byte.         *)
(***************************************************************************)
Lead == "C3"

Cont == "A9"

\* The runes of the texts compared: 'a', ' ', '\n' and 'é'.
RuneSet == {<<"a">>, <<" ">>, <<"\n">>, <<Lead, Cont>>}

MaxRunes == 2

RuneSeqs == UNION {[1..n -> RuneSet] : n \in 0..MaxRunes}

RECURSIVE Flatten(_)
Flatten(rs) == IF rs = <<>> THEN <<>> ELSE Head(rs) \o Flatten(Tail(rs))

\* []rune(s): the runes of a well-formed text.
RuneStarts(s) == {k \in 1..Len(s) : s[k] # Cont}

RuneAt(s, k) == IF s[k] = Lead THEN SubSeq(s, k, k + 1) ELSE <<s[k]>>

Runes(s) ==
    [i \in 1..Cardinality(RuneStarts(s)) |->
        RuneAt(s, CHOOSE k \in RuneStarts(s) :
                     Cardinality({x \in RuneStarts(s) : x < k}) = i - 1)]

\* The byte offset after the first n runes.
ByteOff(rs, n) == Len(Flatten(SubSeq(rs, 1, n)))

\* A common subsequence of two rune sequences: matched positions, strictly
\* increasing on both sides.
IsChain(M) ==
    \A p \in M, q \in M : (p[1] < q[1]) <=> (p[2] < q[2])

Chains(rb, ra) ==
    {M \in SUBSET {p \in (1..Len(rb)) \X (1..Len(ra)) : rb[p[1]] = ra[p[2]]} :
        IsChain(M)}

Anchors(M, rb, ra) == M \cup {<<0, 0>>, <<Len(rb) + 1, Len(ra) + 1>>}

NextAnchor(A, p) ==
    CHOOSE q \in A : q[1] > p[1] /\ \A x \in A : x[1] > p[1] => q[1] <= x[1]

\* The anchors after which the two texts differ.
Gaps(A, rb) ==
    {p \in A : p[1] <= Len(rb)
               /\ NextAnchor(A, p) # <<p[1] + 1, p[2] + 1>>}

GapEdit(p, q, rb, ra) ==
    [Start |-> ByteOff(rb, p[1]), End |-> ByteOff(rb, q[1] - 1),
     New |-> Flatten(SubSeq(ra, p[2] + 1, q[2] - 1))]

GapAt(G, k) == CHOOSE p \in G : Cardinality({x \in G : x[1] < p[1]}) = k - 1

EditsOfGaps(A, G, rb, ra) ==
    [k \in 1..Cardinality(G) |->
        GapEdit(GapAt(G, k), NextAnchor(A, GapAt(G, k)), rb, ra)]

EditsOfChain(M, rb, ra) ==
    EditsOfGaps(Anchors(M, rb, ra), Gaps(Anchors(M, rb, ra), rb), rb, ra)

\* udiff.Strings(before, after): nil for equal texts, otherwise the edits
\* between the matched runes of a common subsequence; which common
\* subsequence the library finds is left open.
udiffStrings(before, after) ==
    IF before = after THEN {<<>>}
    ELSE {EditsOfChain(M, Runes(before), Runes(after)) :
             M \in Chains(Runes(before), Runes(after))}

\* validate: the edits sorted by (Start, End), stably.
EditLess(e, i, f, j) ==
    \/ e.Start < f.Start
    \/ e.Start = f.Start /\ e.End < f.End
    \/ e.Start = f.Start /\ e.End = f.End /\ i < j

SortOrder(edits) ==
    CHOOSE pi \in [1..Len(edits) -> 1..Len(edits)] :
        \A i \in 1..Len(edits), j \in 1..Len(edits) :
            i < j => EditLess(edits[pi[i]], pi[i], edits[pi[j]], pi[j])

SortEdits(edits) == [k \in 1..Len(edits) |-> edits[SortOrder(edits)[k]]]

\* validate: every edit within the text and none starting before the end of
\* the one before it.
ValidEdits(src, es) ==
    /\ \A k \in 1..Len(es) :
          0 <= es[k].Start /\ es[k].Start <= es[k].End /\ es[k].End <= Len(src)
    /\ \A k \in 1..(Len(es) - 1) : es[k + 1].Start >= es[k].End

RECURSIVE ApplyLoop(_, _, _, _)
ApplyLoop(src, es, k, lastEnd) ==
    IF k > Len(es) THEN SubSeq(src, lastEnd + 1, Len(src))
    ELSE SubSeq(src, lastEnd + 1, es[k].Start) \o es[k].New
         \o ApplyLoop(src, es, k + 1, es[k].End)

\* Mutation: the text between two edits is copied from the start of the
\* earlier edit.
ApplySorted_FromStart(src, es) ==
    IF ValidEdits(src, es)
    THEN [ok |-> TRUE,
          out |-> Flatten([k \in 1..Len(es) |->
                     SubSeq(src, (IF k = 1 THEN 0 ELSE es[k - 1].Start) + 1,
                            es[k].Start) \o es[k].New])
                  \o SubSeq(src, (IF es = <<>> THEN 0 ELSE es[Len(es)].End) + 1,
                            Len(src))]
    ELSE [ok |-> FALSE, out |-> <<>>]

ApplySorted(src, es) ==
    IF ValidEdits(src, es) THEN [ok |-> TRUE, out |-> ApplyLoop(src, es, 1, 0)]
    ELSE [ok |-> FALSE, out |-> <<>>]

\* udiff.Apply(src, edits)
udiffApply(src, edits) == ApplySorted(src, SortEdits(edits))

(***************************************************************************)
(* renderSideBySideFromEdits: the text shown for an edit script, as a      *)
(* record.  kind is "message" for a fixed text, "unified" when the width   *)
(* is too narrow for two panes (the text udiff.ToUnified writes is not     *)
(* part of the record) and "panes" for the joined pane rows.               *)
(***************************************************************************)
NoChangesToDisplay == <<"N", "o", " ", "c", "h", "a", "n", "g", "e", "s", " ", "t", "o", " ", "d", "i", "s", "p", "l", "a", "y">>

ErrorGeneratingDiff == <<"E", "r", "r", "o", "r", " ", "g", "e", "n", "e", "r", "a", "t", "i", "n", "g", " ", "d", "i", "f", "f">>

ErrorApplyingEdits == <<"E", "r", "r", "o", "r", " ", "a", "p", "p", "l", "y", "i", "n", "g", " ", "e", "d", "i", "t", "s">>

Message(t) == [kind |-> "message", rows |-> <<t>>]

RowTexts(rows) == [k \in 1..Len(rows) |-> rows[k].text]

PanesText(r, lw, rw) ==
    [kind |-> "panes", rows |-> JoinedRows(RowTexts(r.left), RowTexts(r.right), lw, rw)]

\* Mutation: the layout is chosen before the edit script is looked at.
renderSideBySideFromEdits_LayoutFirst(edits, originalContent, w, sh) ==
    IF ~calculateLayout(w)[1]
    THEN IF ValidEdits(originalContent, SortEdits(edits))
         THEN [kind |-> "unified", rows |-> <<>>]
         ELSE Message(ErrorGeneratingDiff)
    ELSE IF edits = <<>> THEN Message(NoChangesToDisplay)
    ELSE IF ~udiffApply(originalContent, edits).ok THEN Message(ErrorApplyingEdits)
    ELSE PanesText(buildSideBySideLines(edits, Split(originalContent), sh),
                   calculateLayout(w)[2], calculateLayout(w)[3])

renderSideBySideFromEdits(edits, originalContent, w, sh) ==
    IF edits = <<>> THEN Message(NoChangesToDisplay)
    ELSE IF ~calculateLayout(w)[1]
    THEN IF ValidEdits(originalContent, SortEdits(edits))
         THEN [kind |-> "unified", rows |-> <<>>]
         ELSE Message(ErrorGeneratingDiff)
    ELSE IF ~udiffApply(originalContent, edits).ok THEN Message(ErrorApplyingEdits)
    ELSE PanesText(buildSideBySideLines(edits, Split(originalContent), sh),
                   calculateLayout(w)[2], calculateLayout(w)[3])

\* The call of buildSideBySideLines is reached for a script with edits that
\* apply, at a width with room for two panes.
BuildReached(edits, originalContent, w) ==
    edits # <<>> /\ calculateLayout(w)[1] /\ udiffApply(originalContent, edits).ok

BuiltWithin(edits, originalContent, w, sh) ==
    IF BuildReached(edits, originalContent, w)
    THEN buildSideBySideLines(edits, Split(originalContent), sh)
    ELSE [left |-> <<>>, right |-> <<>>]

RenderRecord(orig, edits, r, reached, text) ==
    [NoBuild EXCEPT !.call = "render", !.orig = orig, !.edits = edits,
                    !.left = r.left, !.right = r.right, !.done = reached,
                    !.text = text]

\* A call of renderSideBySideFromEdits on the viewer, recorded in built with
\* the rows of its call of buildSideBySideLines.
RenderFromEdits(orig, edits) ==
    /\ Running
    /\ built' = RenderRecord(orig, edits,
                             BuiltWithin(edits, orig, width, syntaxHighlight),
                             BuildReached(edits, orig, width),
                             renderSideBySideFromEdits(edits, orig, width,
                                                       syntaxHighlight))
    /\ UNCHANGED <<quit, content, tui, run, api, syntaxHighlight, showWhitespace, width, height,
                   err, mode, scrollSync, leftViewport, rightViewport,
                   unifiedViewport>>

\* GetStagedFileEdits: udiff.Strings on the HEAD and the staged content of
\* a file, recorded in built.
GetStagedFileEdits(headContent, stagedContent) ==
    /\ Running
    /\ \E edits \in udiffStrings(headContent, stagedContent) :
          built' = [NoBuild EXCEPT !.call = "strings", !.orig = headContent,
                                   !.revised = stagedContent, !.edits = edits]
    /\ UNCHANGED <<quit, content, tui, run, api, syntaxHighlight, showWhitespace, width, height,
                   err, mode, scrollSync, leftViewport, rightViewport,
                   unifiedViewport>>

(***************************************************************************)
(* The edit-script view: a viewer without diff content that is resized,    *)
(* toggles highlighting and renders edit scripts.                          *)
(***************************************************************************)
InitEdits == Init /\ content = <<>> /\ mode = SideBySideMode /\ ~showWhitespace

NextEdits ==
    \/ \E w \in Widths, h \in Heights : WindowSize(w, h)
    \/ KeyH
    \/ \E orig \in Originals : \E edits \in EditScripts(orig) :
          RenderFromEdits(orig, edits)
    \/ \E head \in Originals, staged \in Originals :
          GetStagedFileEdits(head, staged)

SpecEdits == InitEdits /\ [][NextEdits]_vars

(***************************************************************************)
(* udiff.Strings alone, on every pair of texts of up to MaxRunes runes.    *)
(***************************************************************************)
Texts == {Flatten(rs) : rs \in RuneSeqs}

\* The contents of the file at HEAD and in the index, before the call.
Input(headContent, stagedContent) ==
    [NoBuild EXCEPT !.call = "input", !.orig = headContent, !.revised = stagedContent]

InitStrings ==
    /\ InitViewer
    /\ content = <<>> /\ mode = UnifiedMode /\ ~syntaxHighlight /\ ~showWhitespace
    /\ built \in {Input(head, staged) : head \in Texts, staged \in Texts}
    /\ ViewerOnly

NextStrings == built.call = "input" /\ GetStagedFileEdits(built.orig, built.revised)

SpecStrings == InitStrings /\ [][NextStrings]_vars

(***************************************************************************)
(* applySyntaxHighlighting called directly, in both viewers, on a few      *)
(* strings under every file name and every failure of the environment.     *)
(***************************************************************************)
HighlightInputs == {<<>>, <<"x">>, <<"x", " ", "y">>}

HighlightCall(s, filename, miss) ==
    /\ Running
    /\ built' = [NoBuild EXCEPT !.call = "highlight", !.orig = s, !.name = filename,
                                !.miss = miss,
                                !.text = Returned(applySyntaxHighlightingWith(
                                             syntaxHighlight, s, filename, miss))]
    /\ UNCHANGED <<quit, content, tui, run, api, syntaxHighlight, showWhitespace, width, height,
                   err, mode, scrollSync, leftViewport, rightViewport,
                   unifiedViewport>>

HighlightCallParsed(s, filename, miss) ==
    /\ Running
    /\ built' = [NoBuild EXCEPT !.call = "highlightParsed", !.orig = s,
                                !.name = filename, !.miss = miss,
                                !.text = applySyntaxHighlightingParsed(
                                             syntaxHighlight, s, filename, miss)]
    /\ UNCHANGED <<quit, content, tui, run, api, syntaxHighlight, showWhitespace, width, height,
                   err, mode, scrollSync, leftViewport, rightViewport,
                   unifiedViewport>>

InitHighlight == Init /\ content = <<>> /\ mode = UnifiedMode /\ ~showWhitespace

NextHighlight ==
    \/ KeyH
    \/ \E s \in HighlightInputs, f \in FileNames, miss \in Misses :
          HighlightCall(s, f, miss)
    \/ \E s \in HighlightInputs, f \in FileNames, miss \in Misses :
          HighlightCallParsed(s, f, miss)

SpecHighlight == InitHighlight /\ [][NextHighlight]_vars

(***************************************************************************)
(* parseResponse: the reply of the language model, split into the commit   *)
(* message and the PR description.                                         *)
(***************************************************************************)
CommitPrefix == <<"C", "O", "M", "M", "I", "T", ":">>

PRPrefix == <<"P", "R", ":">>

\* unicode.IsSpace on the runes of a reply.
IsUnicodeSpace(c) == c \in {" ", "\t", "\n", "\r"}

NonSpaceAt(s) == {k \in 1..Len(s) : ~IsUnicodeSpace(s[k])}

\* strings.TrimSpace(s)
TrimSpace(s) ==
    IF NonSpaceAt(s) = {} THEN <<>>
    ELSE SubSeq(s, CHOOSE a \in NonSpaceAt(s) : \A x \in NonSpaceAt(s) : a <= x,
                CHOOSE b \in NonSpaceAt(s) : \A x \in NonSpaceAt(s) : x <= b)

\* strings.TrimPrefix(s, p)
TrimPrefix(s, p) == IF HasPrefix(s, p) THEN SubSeq(s, Len(p) + 1, Len(s)) ELSE s

\* The lines that assign commitMessage; the last one is the one kept.
CommitLineAt(lines) == {k \in 1..Len(lines) : HasPrefix(lines[k], CommitPrefix)}

LastCommitLine(lines) ==
    CHOOSE k \in CommitLineAt(lines) : \A x \in CommitLineAt(lines) : x <= k

commitMessageOf(lines) ==
    IF CommitLineAt(lines) = {} THEN <<>>
    ELSE TrimSpace(TrimPrefix(lines[LastCommitLine(lines)], CommitPrefix))

\* The lines appended to prLines: those that start with neither prefix and
\* come after a line that starts with "PR:".
PRLineAt(lines) ==
    {k \in 1..Len(lines) :
        /\ ~HasPrefix(lines[k], CommitPrefix)
        /\ ~HasPrefix(lines[k], PRPrefix)
        /\ \E j \in 1..(k - 1) :
              ~HasPrefix(lines[j], CommitPrefix) /\ HasPrefix(lines[j], PRPrefix)}

prLinesOf(lines) ==
    [i \in 1..Cardinality(PRLineAt(lines)) |->
        lines[CHOOSE k \in PRLineAt(lines) :
                 Cardinality({x \in PRLineAt(lines) : x < k}) = i - 1]]

ErrNoCommit == "no commit message found in response"

ErrNoPR == "no PR description found in response"

Failed(e) == [kind |-> "error", rows |-> <<e>>]

LLMResult(commitMessage, prDescription) ==
    [kind |-> "result", rows |-> <<commitMessage, prDescription>>]

parseLines(commitMessage, prDescription) ==
    IF commitMessage = <<>> THEN Failed(ErrNoCommit)
    ELSE IF prDescription = <<>> THEN Failed(ErrNoPR)
    ELSE LLMResult(commitMessage, prDescription)

parseResponse(c) ==
    parseLines(commitMessageOf(Split(c)), TrimSpace(Join(prLinesOf(Split(c)))))

\* The lines of the replies parsed.
ReplyLines ==
    {<<"C", "O", "M", "M", "I", "T", ":", " ", "f", "i", "x">>, <<"C", "O", "M", "M", "I", "T", ":", " ">>, PRPrefix,
     <<"P", "R", ":", " ", "t">>, <<>>, <<" ", "b", " ">>}

MaxLines == 4

Replies == {Join(ls) : ls \in UNION {[1..n -> ReplyLines] : n \in 0..MaxLines}}

Reply(c) == [NoBuild EXCEPT !.call = "reply", !.orig = c]

\* A call of parseResponse on the reply held in built.
ParseResponse ==
    /\ Running
    /\ built.call = "reply"
    /\ built' = [built EXCEPT !.call = "parse", !.text = parseResponse(built.orig)]
    /\ UNCHANGED <<quit, content, tui, run, api, syntaxHighlight, showWhitespace, width, height,
                   err, mode, scrollSync, leftViewport, rightViewport,
                   unifiedViewport>>

InitParse ==
    /\ InitViewer
    /\ content = <<>> /\ mode = UnifiedMode /\ ~syntaxHighlight /\ ~showWhitespace
    /\ built \in {Reply(c) : c \in Replies}
    /\ ViewerOnly

NextParse == ParseResponse

SpecParse == InitParse /\ [][NextParse]_vars

(***************************************************************************)
(* countLines called directly on up to MaxLineCount lines of zero to two   *)
(* bytes, with every offset up to MaxOffset.                               *)
(***************************************************************************)
MaxLineCount == 3

MaxOffset == 8

CountedLines ==
    UNION {[1..n -> {<<>>, <<"a">>, <<"a", "b">>}] : n \in 0..MaxLineCount}

CountArgs(lines, offset) == [NoBuild EXCEPT !.call = "count", !.args = <<lines, offset>>]

CountLines ==
    /\ Running
    /\ built.call = "count"
    /\ built' = [built EXCEPT !.call = "counted",
                              !.text = Returned(countLines(built.args[1], built.args[2]))]
    /\ UNCHANGED <<quit, content, tui, run, api, syntaxHighlight, showWhitespace, width,
                   height, err, mode, scrollSync, leftViewport, rightViewport,
                   unifiedViewport>>

InitCount ==
    /\ InitViewer
    /\ content = <<>> /\ mode = UnifiedMode /\ ~syntaxHighlight /\ ~showWhitespace
    /\ built \in {CountArgs(ls, o) : ls \in CountedLines, o \in 0..MaxOffset}
    /\ ViewerOnly

NextCount == CountLines

SpecCount == InitCount /\ [][NextCount]_vars


(***************************************************************************)
(* getAPIKey over viper's sources of "api-key" and the process             *)
(* environment.  A source is <<>> when it holds no value and <<v>> when it *)
(* holds v: override is viper.Set (SaveAPIKey, the tests), flag the        *)
(* --api-key flag when given, file the key of config.yaml; autoEnv is the  *)
(* variable API-KEY that AutomaticEnv consults, and openRouter the         *)
(* variable OPENROUTER_API_KEY, both "" when unset.                        *)
(***************************************************************************)
KeyValues == {"", "k1", "k2"}

Sources == {<<>>} \cup {<<k>> : k \in KeyValues}

Vipers == [override : Sources, flag : Sources, autoEnv : KeyValues, file : Sources]

\* viper.GetString("api-key"): an override, then a changed flag, then a
\* non-empty environment variable, then the configuration file, then the
\* flag's default "".
viperGetString(v) ==
    IF v.override # <<>> THEN v.override[1]
    ELSE IF v.flag # <<>> THEN v.flag[1]
    ELSE IF v.autoEnv # "" THEN v.autoEnv
    ELSE IF v.file # <<>> THEN v.file[1]
    ELSE ""

getAPIKey(v, openRouter) ==
    IF viperGetString(v) # "" THEN viperGetString(v)
    ELSE IF openRouter # "" THEN openRouter
    ELSE viperGetString(v)

KeyArgs(v, openRouter) == [NoBuild EXCEPT !.call = "key", !.args = <<v, openRouter>>]

GetAPIKey ==
    /\ Running
    /\ built.call = "key"
    /\ built' = [built EXCEPT !.call = "resolved",
                              !.text = Returned(getAPIKey(built.args[1], built.args[2]))]
    /\ UNCHANGED <<quit, content, tui, run, api, syntaxHighlight, showWhitespace, width,
                   height, err, mode, scrollSync, leftViewport, rightViewport,
                   unifiedViewport>>

InitAPIKey ==
    /\ InitViewer
    /\ content = <<>> /\ mode = UnifiedMode /\ ~syntaxHighlight /\ ~showWhitespace
    /\ built \in {KeyArgs(v, e) : v \in Vipers, e \in KeyValues}
    /\ ViewerOnly

NextAPIKey == GetAPIKey

SpecAPIKey == InitAPIKey /\ [][NextAPIKey]_vars


(***************************************************************************)
(* strings.ToUpper, strings.Contains, strings.ReplaceAll and               *)
(* ExpandPRTemplate on file names.                                         *)
(***************************************************************************)
LowerLetters ==
    <<"a", "b", "c", "d", "e", "f", "g", "h", "i", "j", "k", "l", "m",
      "n", "o", "p", "q", "r", "s", "t", "u", "v", "w", "x", "y", "z">>

UpperLetters ==
    <<"A", "B", "C", "D", "E", "F", "G", "H", "I", "J", "K", "L", "M",
      "N", "O", "P", "Q", "R", "S", "T", "U", "V", "W", "X", "Y", "Z">>

ToUpperRune(c) ==
    IF \E k \in 1..Len(LowerLetters) : LowerLetters[k] = c
    THEN UpperLetters[CHOOSE k \in 1..Len(LowerLetters) : LowerLetters[k] = c]
    ELSE c

\* strings.ToUpper(s)
ToUpper(s) == [k \in 1..Len(s) |-> ToUpperRune(s[k])]

HasPrefixAt(s, p, i) == i + Len(p) - 1 <= Len(s) /\ SubSeq(s, i, i + Len(p) - 1) = p

\* strings.Contains(s, sub)
Contains(s, sub) == \E i \in 1..(Len(s) + 1) : HasPrefixAt(s, sub, i)

\* strings.ReplaceAll(s, old, new) for a non-empty old, from position i on.
RECURSIVE ReplaceAllFrom(_, _, _, _)
ReplaceAllFrom(s, old, new, i) ==
    IF i > Len(s) THEN <<>>
    ELSE IF HasPrefixAt(s, old, i) THEN new \o ReplaceAllFrom(s, old, new, i + Len(old))
    ELSE <<s[i]>> \o ReplaceAllFrom(s, old, new, i + 1)

ReplaceAll(s, old, new) == ReplaceAllFrom(s, old, new, 1)

Placeholder == <<"{", "{", "I", "D", "}", "}">>

\* const templateVar string = "PR_{{ID}}.md"
templateVar == <<"P", "R", "_">> \o Placeholder \o <<".", "m", "d">>

\* rand.Intn(IDRange)
IDRange == 256

\* The random IDs explored: one, two and three digits.
IDs == {0, 9, 10, IDRange - 1}

\* ExpandPRTemplate(template) with randomID the value rand.Intn returned.
ExpandPRTemplate(template, randomID) ==
    IF Contains(template, Placeholder)
    THEN ReplaceAll(template, Placeholder, Digits(randomID))
    ELSE template


(***************************************************************************)
(* runNonInteractive, one action per interaction with the outside: the     *)
(* configuration read and the test of the refs, GetDiff, the generation    *)
(* service, the write of the temporary file and its rename.  run.pc is the *)
(* position, run.failed the step whose error was returned, run.calls the   *)
(* number of calls of the generation service, run.stdout what was printed  *)
(* and run.files the names of the files that exist; run.flagOutPR keeps    *)
(* the value of --out-pr that outPR was read from.                         *)
(***************************************************************************)
RefNames == {"", "main", "dev"}

\* --out-pr: the default, its lower-case spelling, a name with two
\* placeholders and a plain name.
OutNames ==
    {templateVar,
     <<"p", "r", "_", "{", "{", "i", "d", "}", "}", ".", "m", "d">>,
     Placeholder \o <<"_">> \o Placeholder,
     <<"P", "R", ".", "m", "d">>}

\* What GetDiff returns: an error, or a diff that is empty, blank or not.
DiffError == "error"

DiffResults == {DiffError, <<>>, <<" ", "\n">>, <<"+", "a">>}

\* What GenerateCommitAndPR returns.
GenResults == {Failed("api"), LLMResult(<<"f", "i", "x">>, <<"b", "o", "d", "y">>)}

RunArgs(refCurrent, refIncoming, outPR) ==
    [NoRun EXCEPT !.pc = "refs", !.refCurrent = refCurrent,
                  !.refIncoming = refIncoming, !.flagOutPR = outPR, !.outPR = outPR]

RunFailed(r, step) == [r EXCEPT !.pc = "failed", !.failed = step]

ViewerIdle ==
    UNCHANGED <<quit, built, content, syntaxHighlight, showWhitespace, width, height,
                err, mode, scrollSync, leftViewport, rightViewport, unifiedViewport>>

\* README.md lines 195-201
RunCheckRefs ==
    /\ run.pc = "refs"
    /\ run' = IF run.refCurrent = "" \/ run.refIncoming = ""
              THEN RunFailed(run, "refs")
              ELSE [run EXCEPT !.pc = "diff"]
    /\ ViewerIdle /\ UNCHANGED <<tui, api>>

\* Mutation: a blank diff goes on to the generation.
RunGetDiff_Blank ==
    /\ run.pc = "diff"
    /\ \E d \in DiffResults :
          run' = IF d = DiffError THEN RunFailed(run, "diff")
                 ELSE [run EXCEPT !.pc = "generate", !.diff = d]
    /\ ViewerIdle /\ UNCHANGED <<tui, api>>

\* README.md lines 203-212
RunGetDiff ==
    /\ run.pc = "diff"
    /\ \E d \in DiffResults :
          run' = IF d = DiffError THEN RunFailed(run, "diff")
                 ELSE IF TrimSpace(d) = <<>> THEN RunFailed([run EXCEPT !.diff = d], "blank")
                 ELSE [run EXCEPT !.pc = "generate", !.diff = d]
    /\ ViewerIdle /\ UNCHANGED <<tui, api>>

\* The name the PR description goes to (README.md lines 222-225).
OutName(outPR, randomID) ==
    IF ToUpper(outPR) = templateVar THEN ExpandPRTemplate(outPR, randomID) ELSE outPR

\* README.md lines 214-235: the call, Println of the commit message and
\* the choice of the file name.
RunGenerate ==
    /\ run.pc = "generate"
    /\ \E res \in GenResults, randomID \in IDs :
          run' = IF res.kind = "error"
                 THEN RunFailed([run EXCEPT !.calls = @ + 1, !.result = res], "generate")
                 ELSE [run EXCEPT !.pc = "write", !.calls = @ + 1, !.result = res,
                                  !.stdout = Append(@, res.rows[1]),
                                  !.outPR = OutName(@, randomID)]
    /\ ViewerIdle /\ UNCHANGED <<tui, api>>

TempName(outPR) == outPR \o <<".", "t", "m", "p">>

\* README.md lines 237-242: os.WriteFile(tempFile, ...)
RunWriteTemp ==
    /\ run.pc = "write"
    /\ \E ok \in BOOLEAN :
          run' = IF ok THEN [run EXCEPT !.pc = "rename", !.files = @ \cup {TempName(run.outPR)}]
                 ELSE RunFailed(run, "temp")
    /\ ViewerIdle /\ UNCHANGED <<tui, api>>

\* README.md lines 244-251: os.Rename(tempFile, outPR), os.Remove on failure
RunRename ==
    /\ run.pc = "rename"
    /\ \E ok \in BOOLEAN :
          run' = IF ok THEN [run EXCEPT !.pc = "done",
                                        !.files = (@ \ {TempName(run.outPR)}) \cup {run.outPR}]
                 ELSE RunFailed([run EXCEPT !.files = @ \ {TempName(run.outPR)}], "rename")
    /\ ViewerIdle /\ UNCHANGED <<tui, api>>

InitRun ==
    /\ InitViewer
    /\ content = <<>> /\ mode = UnifiedMode /\ ~syntaxHighlight /\ ~showWhitespace
    /\ built = NoBuild /\ tui = NoTui /\ api = NoApi
    /\ run \in {RunArgs(c, i, o) : c \in RefNames, i \in RefNames, o \in OutNames}

NextRun ==
    \/ RunCheckRefs
    \/ RunGetDiff
    \/ RunGenerate
    \/ RunWriteTemp
    \/ RunRename

SpecRun == InitRun /\ [][NextRun]_vars


(***************************************************************************)
(* The reference-selection TUI (model.Update and its commands).  A command *)
(* returned by Update runs on its own and delivers its message at any      *)
(* later moment; the item under the cursor of a list, which the list moves *)
(* on its own keys, is any item of the list.  Sizes, the keypress display  *)
(* and the names of the selected refs are left out.                        *)
(***************************************************************************)
\* At most this many commands run at once.
MaxCommands == 1

\* m.selectedCurrent[:HashPrefix]
HashPrefix == 8

\* Length of commit.Hash.String()
HashLen == 40

\* GetStagedRef: Hash "staged"
StagedHash == <<"s", "t", "a", "g", "e", "d">>

\* GetBranches: ref.Hash().String()[:8]
BranchHash == Repeat("b", HashPrefix)

\* GetRecentCommits: commit.Hash.String()
CommitHash == Repeat("c", HashLen)

\* The items loadRefs puts into both lists.
Items(t) == (IF t.hasStaged THEN {StagedHash} ELSE {}) \cup {BranchHash, CommitHash}

RefSelectionView == "refSelectionView"

DiffView == "diffView"

ResultView == "resultView"

TuiRunning == tui.state # "none" /\ ~tui.quit /\ ~tui.crashed

\* Init() with the command loadRefs of model.Init() started.
TuiInit(hasStaged, outPR) ==
    [NoTui EXCEPT !.state = RefSelectionView, !.hasStaged = hasStaged, !.outPR = outPR,
                  !.cmds = <<[kind |-> "loadRefs"]>>]

Without(cmds, i) == SubSeq(cmds, 1, i - 1) \o SubSeq(cmds, i + 1, Len(cmds))

Started(t, cmd) == [t EXCEPT !.cmds = Append(@, cmd)]

TuiStep(t) == tui' = t /\ ViewerIdle /\ UNCHANGED <<run, api>>

\* "q", "ctrl+c" in every view
TuiKeyQuit == TuiRunning /\ TuiStep([tui EXCEPT !.quit = TRUE])

\* "tab"
TuiKeyTab ==
    /\ TuiRunning /\ tui.state = RefSelectionView
    /\ TuiStep([tui EXCEPT !.activeSide = IF @ = "current" THEN "incoming" ELSE "current"])

\* The selection of item on the active side.
Selected(t, item) ==
    IF t.activeSide = "current" THEN [t EXCEPT !.selectedCurrent = item]
    ELSE [t EXCEPT !.selectedIncoming = item]

\* generateDiff is returned when both refs are selected.
WithGenerateDiff(t) ==
    IF t.selectedCurrent # <<>> /\ t.selectedIncoming # <<>>
    THEN Started(t, [kind |-> "diff"])
    ELSE t

\* "enter", " ": with nothing loaded SelectedItem() is nil and nothing is
\* selected.
TuiKeyEnter ==
    /\ TuiRunning /\ tui.state = RefSelectionView
    /\ Len(tui.cmds) < MaxCommands
    /\ \/ ~tui.loaded /\ TuiStep(WithGenerateDiff(tui))
       \/ tui.loaded /\ \E item \in Items(tui) : TuiStep(WithGenerateDiff(Selected(tui, item)))

\* "r"
TuiKeyReset ==
    /\ TuiRunning /\ tui.state = RefSelectionView
    /\ TuiStep(Selected(tui, <<>>))

\* "R"
TuiKeyResetAll ==
    /\ TuiRunning /\ tui.state = RefSelectionView
    /\ TuiStep([tui EXCEPT !.selectedCurrent = <<>>, !.selectedIncoming = <<>>])

\* "b" in the diff view
TuiKeyBack ==
    /\ TuiRunning /\ tui.state = DiffView
    /\ TuiStep([tui EXCEPT !.state = RefSelectionView])

\* "g" in the diff view
TuiKeyGenerate ==
    /\ TuiRunning /\ tui.state = DiffView
    /\ Len(tui.cmds) < MaxCommands
    /\ TuiStep(Started(tui, [kind |-> "llm"]))

\* "d" in the result view
TuiKeyDiff ==
    /\ TuiRunning /\ tui.state = ResultView
    /\ TuiStep([tui EXCEPT !.state = DiffView])

\* "c" in the result view
TuiKeyCopy ==
    /\ TuiRunning /\ tui.state = ResultView
    /\ Len(tui.cmds) < MaxCommands
    /\ TuiStep(Started(tui, [kind |-> "copy"]))

\* "p" in the result view: the command works on the model of this moment.
TuiKeySave ==
    /\ TuiRunning /\ tui.state = ResultView
    /\ Len(tui.cmds) < MaxCommands
    /\ TuiStep(Started(tui, [kind |-> "save", current |-> tui.selectedCurrent,
                             incoming |-> tui.selectedIncoming]))

\* refsLoadedMsg
TuiRefsLoaded ==
    /\ TuiRunning
    /\ \E i \in 1..Len(tui.cmds) :
          /\ tui.cmds[i].kind = "loadRefs"
          /\ TuiStep([tui EXCEPT !.loaded = TRUE, !.cmds = Without(@, i)])

\* What GetDiff and GetStagedDiff return without an error.
TuiDiffs == {<<>>, <<"+", "a">>}

\* diffGeneratedMsg
TuiDiffGenerated ==
    /\ TuiRunning
    /\ \E i \in 1..Len(tui.cmds), d \in TuiDiffs :
          /\ tui.cmds[i].kind = "diff"
          /\ TuiStep([tui EXCEPT !.diff = d, !.state = DiffView, !.cmds = Without(@, i)])

\* llmResultMsg
TuiLLMResult ==
    /\ TuiRunning
    /\ \E i \in 1..Len(tui.cmds) :
          /\ tui.cmds[i].kind = "llm"
          /\ TuiStep([tui EXCEPT !.commitMessage = <<"f", "i", "x">>,
                                 !.prDescription = <<"b", "o", "d", "y">>,
                                 !.state = ResultView, !.cmds = Without(@, i)])

\* copyCommitMessage returned nil.
TuiCopied ==
    /\ TuiRunning
    /\ \E i \in 1..Len(tui.cmds) :
          /\ tui.cmds[i].kind = "copy"
          /\ TuiStep([tui EXCEPT !.cmds = Without(@, i)])

\* errMsg of loadRefs, generateDiff, generateLLMResult or copyCommitMessage
TuiErrMsg ==
    /\ TuiRunning
    /\ \E i \in 1..Len(tui.cmds) :
          /\ tui.cmds[i].kind # "save"
          /\ TuiStep([tui EXCEPT !.err = TRUE, !.cmds = Without(@, i)])

\* s[:HashPrefix] is within bounds.
CanSlice(s) == Len(s) >= HashPrefix

\* The file name of savePRDescription.
SaveName(outPR, randomID) ==
    ExpandPRTemplate(IF outPR = <<>> THEN <<"P", "R", ".", "m", "d">> ELSE outPR, randomID)

\* The command of savePRDescription for cmds[i]: the slicing of the two
\* hashes panics when one is shorter than HashPrefix; ok tells whether
\* WriteFile and Rename succeeded.
SavePRDescription(t, i, randomID, ok) ==
    IF ~CanSlice(t.cmds[i].current) \/ ~CanSlice(t.cmds[i].incoming)
    THEN [t EXCEPT !.saved = [outcome |-> "panic", name |-> <<>>], !.crashed = TRUE,
                   !.cmds = Without(@, i)]
    ELSE IF ok
    THEN [t EXCEPT !.saved = [outcome |-> "written", name |-> SaveName(t.outPR, randomID)],
                   !.cmds = Without(@, i)]
    ELSE [t EXCEPT !.saved = [outcome |-> "error", name |-> SaveName(t.outPR, randomID)],
                   !.err = TRUE, !.cmds = Without(@, i)]

TuiSaved ==
    /\ TuiRunning
    /\ \E i \in 1..Len(tui.cmds), randomID \in IDs, ok \in BOOLEAN :
          /\ tui.cmds[i].kind = "save"
          /\ TuiStep(SavePRDescription(tui, i, randomID, ok))

InitTui ==
    /\ InitViewer
    /\ content = <<>> /\ mode = UnifiedMode /\ ~syntaxHighlight /\ ~showWhitespace
    /\ built = NoBuild /\ run = NoRun /\ api = NoApi
    /\ tui \in {TuiInit(s, o) : s \in BOOLEAN, o \in {<<>>, templateVar}}

NextTui ==
    \/ TuiKeyQuit
    \/ TuiKeyTab
    \/ TuiKeyEnter
    \/ TuiKeyReset
    \/ TuiKeyResetAll
    \/ TuiKeyBack
    \/ TuiKeyGenerate
    \/ TuiKeyDiff
    \/ TuiKeyCopy
    \/ TuiKeySave
    \/ TuiRefsLoaded
    \/ TuiDiffGenerated
    \/ TuiLLMResult
    \/ TuiCopied
    \/ TuiErrMsg
    \/ TuiSaved

SpecTui == InitTui /\ [][NextTui]_vars


(***************************************************************************)
(* GenerateCommitAndPRWithModel and the package variable systemPrompt.     *)
(* Every call is a goroutine of its own (the command of generateLLMResult),*)
(* so calls interleave at their accesses to the variable: the read and the *)
(* write of "systemPrompt += ..." and the read that builds the request.    *)
(* The accesses are not synchronised: a read that races with a write may   *)
(* see a string made of the pointer of one value and the length of the     *)
(* other, TornPrompt.                                                      *)
(***************************************************************************)
\* At most this many calls in one process.
MaxCalls == 2

TemplateInstruction == <<"template">>

TornPrompt == <<"torn">>

ApiCall == [pc |-> "template", read |-> <<>>, content |-> <<>>]

ApiStep(a) == api' = a /\ ViewerIdle /\ UNCHANGED <<tui, run>>

\* The values a read of systemPrompt by call i can see.
PromptSeen(a, i) ==
    {a.systemPrompt} \cup
    (IF \E j \in 1..Len(a.calls) : j # i /\ a.calls[j].pc = "write"
     THEN {TornPrompt} ELSE {})

\* A call starts: getAPIKey returned a key.
ApiStart ==
    /\ Len(api.calls) < MaxCalls
    /\ ApiStep([api EXCEPT !.calls = Append(@, ApiCall)])

\* api.go lines 122-127: without --pr-template nothing is appended; a
\* template file that cannot be read ends the call.
ApiReadTemplate ==
    \E i \in 1..Len(api.calls), ok \in BOOLEAN :
        /\ api.calls[i].pc = "template"
        /\ ApiStep([api EXCEPT !.calls[i].pc = IF ~api.prTemplate THEN "send"
                                               ELSE IF ok THEN "read"
                                               ELSE "failed"])

\* api.go line 128, the read of systemPrompt += ...
ApiReadPrompt ==
    \E i \in 1..Len(api.calls) :
        /\ api.calls[i].pc = "read"
        /\ \E p \in PromptSeen(api, i) :
              ApiStep([api EXCEPT !.calls[i].pc = "write", !.calls[i].read = p])

\* api.go line 128, the write of systemPrompt += ...
ApiAppend ==
    \E i \in 1..Len(api.calls) :
        /\ api.calls[i].pc = "write"
        /\ ApiStep([api EXCEPT !.calls[i].pc = "send",
                               !.systemPrompt = api.calls[i].read \o TemplateInstruction])

\* api.go lines 133-139: the request with Content: systemPrompt
ApiSend ==
    \E i \in 1..Len(api.calls) :
        /\ api.calls[i].pc = "send"
        /\ \E p \in PromptSeen(api, i) :
              ApiStep([api EXCEPT !.calls[i].pc = "sent", !.calls[i].content = p])

InitApi ==
    /\ InitViewer
    /\ content = <<>> /\ mode = UnifiedMode /\ ~syntaxHighlight /\ ~showWhitespace
    /\ built = NoBuild /\ run = NoRun /\ tui = NoTui
    /\ api \in {[NoApi EXCEPT !.prTemplate = t] : t \in BOOLEAN}

NextApi ==
    \/ ApiStart
    \/ ApiReadTemplate
    \/ ApiReadPrompt
    \/ ApiAppend
    \/ ApiSend

SpecApi == InitApi /\ [][NextApi]_vars

(***************************************************************************)
(* Properties.                                                             *)
(***************************************************************************)
\* The pane viewports hold the rendering of the current content under the
\* current width and flags.
PanesRendered ==
    mode = SideBySideMode /\ content # <<>> /\ ~err /\ leftViewport.lines # <<>>

DiffLines == Split(content)

LeftRows == leftViewport.lines

RightRows == rightViewport.lines

\* Classification of a diff line by its text alone.
IsHeaderLine(line) == IsHunkHeader(line) \/ IsFileHeader(line)

IsDeletion(line) == HasPrefix(line, <<"-">>) /\ ~IsHeaderLine(line)

IsAddition(line) == HasPrefix(line, <<"+">>) /\ ~IsHeaderLine(line)

IsContext(line) == HasPrefix(line, <<" ">>)

IsWhitespaceOnly(line) == StripPrefix(line) # <<>> /\ TrimsToEmpty(StripPrefix(line))

InPane(rows, i) == \E k \in 1..Len(rows) : rows[k].src = i

\* C1: the two pane viewports always hold the same number of rows, and the
\* two row sequences returned by buildSideBySideLines have equal length.
C1_RowCountBalance ==
    /\ Len(LeftRows) = Len(RightRows)
    /\ Len(built.left) = Len(built.right)

\* A rendering in which one side was padded with a blank row, next to a
\* build from an edit script that deleted a line.
C1_Witness ==
    /\ PanesRendered
    /\ \E k \in 1..Len(LeftRows) : LeftRows[k].kind = "pad" \/ RightRows[k].kind = "pad"
    /\ built.done
    /\ \E k \in 1..Len(built.left) : built.left[k].kind = "delete"

\* C2: every content line of the diff is rendered: a deletion in the left
\* pane only, an addition in the right pane only, a context line in both;
\* only whitespace-only changes are omitted, and only while whitespace
\* display is off.
C2_EveryLineRendered ==
    PanesRendered =>
      \A i \in 1..Len(DiffLines) :
        LET line == DiffLines[i]
            omitted == ~showWhitespace /\ IsWhitespaceOnly(line)
        IN /\ IsDeletion(line) /\ ~omitted =>
                InPane(LeftRows, i) /\ ~InPane(RightRows, i)
           /\ IsAddition(line) /\ ~omitted =>
                InPane(RightRows, i) /\ ~InPane(LeftRows, i)
           /\ IsContext(line) => InPane(LeftRows, i) /\ InPane(RightRows, i)

\* C3: every row rendered for a classified line and placed in a pane is
\* exactly as wide as the pane, for pane widths of at least 40.
C3_ExactWidth ==
    PanesRendered =>
      LET pw == calculatePaneWidths(width)
          Classified(r) == r.kind \in {"delete", "add", "context"}
      IN /\ pw[1] >= minColumnWidth =>
              \A k \in 1..Len(LeftRows) :
                 Classified(LeftRows[k]) =>
                    PrintableRuneWidth(LeftRows[k].text) = pw[1]
         /\ pw[2] >= minColumnWidth =>
              \A k \in 1..Len(RightRows) :
                 Classified(RightRows[k]) =>
                    PrintableRuneWidth(RightRows[k].text) = pw[2]

\* C4: with available = floor(0.90 * width) - 4, calculateLayout returns
\* (Unified, available, 0) when available < 100 and otherwise side-by-side
\* with leftWidth = floor((available - 3) / 2) and the rest on the right;
\* width 80 gives Unified for either requested mode.
C4_LayoutDecision ==
    LET available == ((width * 9) \div 10) - 4
        d == calculateLayout(width)
    IN /\ available < 100 => d = <<FALSE, available, 0>>
       /\ available >= 100 =>
            /\ d[1] = TRUE
            /\ d[2] = (available - 3) \div 2
            /\ d[3] = (available - 3) - d[2]
            /\ d[3] - d[2] \in {0, 1}
            /\ d[2] + 3 + d[3] = available
       /\ width = 80 => d[1] = FALSE

\* The terminal was resized to a width that gives side-by-side panes of
\* unequal width.
C4_Witness ==
    /\ width = 118
    /\ calculateLayout(width) = <<TRUE, 49, 50>>
    /\ mode = UnifiedMode

\* C5: if the layout at the current width is Unified, it is Unified at every
\* smaller width, and an available width below 100 always gives Unified.
C5_LayoutMonotone ==
    /\ ~calculateLayout(width)[1] =>
          \A w1 \in 0..width : ~calculateLayout(w1)[1]
    /\ ((width * 9) \div 10) - 4 < 100 => ~calculateLayout(width)[1]

\* The widest terminal that is still laid out Unified.
C5_Witness ==
    /\ width = 115
    /\ ~calculateLayout(width)[1]
    /\ calculateLayout(width + 1)[1]

\* Indices of the rows of a pane that render the diff lines from..to-1.
RowsOf(rows, from, to) ==
    {k \in 1..Len(rows) : rows[k].src >= from /\ rows[k].src < to}

MinOf(S) == CHOOSE m \in S : \A x \in S : m <= x

\* A blank row: it renders no diff line and shows nothing but spaces.
IsBlankRow(r) == r.src = 0 /\ \A k \in 1..Len(r.text) : r.text[k] = " "

\* The end of the longest stretch of lines from i on that satisfy P.
EndOf(i, P(_)) ==
    CHOOSE e \in i..(Len(DiffLines) + 1) :
        /\ \A x \in i..(e - 1) : P(DiffLines[x])
        /\ e = Len(DiffLines) + 1 \/ ~P(DiffLines[e])

\* Line i is the first of a run of deletion lines.
IsRunStart(i) ==
    IsDeletion(DiffLines[i]) /\ (i = 1 \/ ~IsDeletion(DiffLines[i - 1]))

\* The deletion rows L (left pane) and addition rows R (right pane) of one
\* run form a block of Max(|L|, |R|) rows that starts at the same row in
\* both panes; the shorter side continues with blank rows.
BlockAligned(L, R) ==
    L \cup R # {} =>
        /\ L = MinOf(L \cup R)..(MinOf(L \cup R) + Cardinality(L) - 1)
        /\ R = MinOf(L \cup R)..(MinOf(L \cup R) + Cardinality(R) - 1)
        /\ MinOf(L \cup R) + Max(Cardinality(L), Cardinality(R)) - 1 <= Len(LeftRows)
        /\ \A k \in (MinOf(L \cup R) + Cardinality(L))..
                    (MinOf(L \cup R) + Cardinality(R) - 1) : IsBlankRow(LeftRows[k])
        /\ \A k \in (MinOf(L \cup R) + Cardinality(R))..
                    (MinOf(L \cup R) + Cardinality(L) - 1) : IsBlankRow(RightRows[k])

RunAligned(i, j) ==
    BlockAligned(RowsOf(LeftRows, i, j), RowsOf(RightRows, j, EndOf(j, IsAddition)))

\* C6: a run of deletion lines followed by a run of addition lines is one
\* parallel block: its deletion rows and its addition rows start at the same
\* row index, the block takes max(deletion rows, addition rows) rows in both
\* panes with blank rows on the shorter side, and the context and header
\* lines around it start at the same row index in both panes.
C6_ParallelBlocks ==
    PanesRendered =>
      /\ \A i \in 1..Len(DiffLines) :
            IsRunStart(i) => RunAligned(i, EndOf(i, IsDeletion))
      /\ \A i \in 1..Len(DiffLines) :
            IsContext(DiffLines[i]) \/ IsHeaderLine(DiffLines[i]) =>
               /\ InPane(LeftRows, i) /\ InPane(RightRows, i)
               /\ MinOf(RowsOf(LeftRows, i, i + 1)) = MinOf(RowsOf(RightRows, i, i + 1))

\* Two deletion lines replaced by one addition line, rendered: the right
\* pane has a blank row next to the second deletion.
C6_Witness ==
    /\ PanesRendered
    /\ content = DiffReplace
    /\ width = 120
    /\ \E k \in 1..Len(LeftRows) :
          /\ LeftRows[k].kind = "delete" /\ RightRows[k].kind = "add"
          /\ LeftRows[k + 1].kind = "delete" /\ RightRows[k + 1].kind = "pad"

IsContentLine(line) == IsDeletion(line) \/ IsAddition(line) \/ IsContext(line)

Rendered(i) == InPane(LeftRows, i) \/ InPane(RightRows, i)

\* C7: with whitespace display off a deletion or addition whose content is
\* non-empty but trims to empty is in neither pane; a content line whose
\* content is the empty string is rendered whatever the flag; with
\* whitespace display on every content line is rendered.
C7_WhitespaceSuppression ==
    PanesRendered =>
      \A i \in 1..Len(DiffLines) :
        /\ ( /\ ~showWhitespace
             /\ IsDeletion(DiffLines[i]) \/ IsAddition(DiffLines[i])
             /\ IsWhitespaceOnly(DiffLines[i]) ) => ~Rendered(i)
        /\ IsContentLine(DiffLines[i]) /\ StripPrefix(DiffLines[i]) = <<>> => Rendered(i)
        /\ showWhitespace /\ IsContentLine(DiffLines[i]) => Rendered(i)

\* The start value a hunk header declares in its field idx ("-<n>" or
\* "+<n>"), 1 when the field is missing or is no number.
DeclaredStart(fields, idx, sign) ==
    IF /\ Len(fields) >= idx
       /\ HasPrefix(fields[idx], <<sign>>)
       /\ ScanInt(fields[idx], 2).ok
    THEN ScanInt(fields[idx], 2).val
    ELSE 1

\* The numbered rows of diff line i in a pane.
NumberedRows(rows, i) ==
    {k \in 1..Len(rows) : /\ rows[k].src = i
                          /\ rows[k].first
                          /\ rows[k].kind \in {"delete", "add", "context"}}

\* C8: the rows of header lines carry no line number, and the content line
\* right after a hunk header is numbered with the header's declared start
\* value on its side, or with 1 when that value cannot be parsed.
C8_HunkCounters ==
    PanesRendered =>
      \A i \in 1..Len(DiffLines) :
        /\ IsHeaderLine(DiffLines[i]) =>
              /\ \A k \in RowsOf(LeftRows, i, i + 1) : LeftRows[k].num = NoNum
              /\ \A k \in RowsOf(RightRows, i, i + 1) : RightRows[k].num = NoNum
        /\ IsHunkHeader(DiffLines[i]) /\ i < Len(DiffLines) =>
              /\ \A k \in NumberedRows(LeftRows, i + 1) :
                    LeftRows[k].num = DeclaredStart(Fields(DiffLines[i]), 2, "-")
              /\ \A k \in NumberedRows(RightRows, i + 1) :
                    RightRows[k].num = DeclaredStart(Fields(DiffLines[i]), 3, "+")

\* The viewports of mode m hold the rendering of the current content.
ShowsContent(m, lv, rv, uv) ==
    IF content = <<>> THEN
        /\ lv.lines = PlainRows(NoDiffContent)
        /\ rv.lines = PlainRows(NoDiffContent)
        /\ uv.lines = PlainRows(NoDiffContent)
    ELSE IF m = SideBySideMode THEN
        /\ lv.lines = renderSideBySidePanes(content, width, syntaxHighlight,
                                            showWhitespace).left
        /\ rv.lines = renderSideBySidePanes(content, width, syntaxHighlight,
                                            showWhitespace).right
    ELSE uv.lines = RowsOfLines(Split(content))

OtherMode(m) == IF m = UnifiedMode THEN SideBySideMode ELSE UnifiedMode

\* C9: the toggle-mode key changes the mode to the other one (so a second
\* press restores it), the viewports of the new mode then hold the rendering
\* of the content, and the three flags keep their values.
C9_ToggleModeKey ==
    [][KeyS =>
         /\ mode' = OtherMode(mode)
         /\ OtherMode(mode') = mode
         /\ ShowsContent(mode', leftViewport', rightViewport', unifiedViewport')
         /\ UNCHANGED <<syntaxHighlight, showWhitespace, scrollSync>>]_vars

\* A diff has been shown in both modes: the panes and the unified view are
\* both filled, which takes a mode toggle.
C9_Witness ==
    /\ content # <<>>
    /\ width = 120
    /\ mode = UnifiedMode
    /\ leftViewport.lines # <<>>
    /\ unifiedViewport.lines # <<>>

\* C10 as stated: in every viewing state the toggle-scroll-sync key has a
\* step that flips the scroll-sync flag and changes nothing else.
C10_ToggleScrollSyncAnyMode ==
    Running =>
       ENABLED ( /\ KeyY
                 /\ scrollSync' = ~scrollSync
                 /\ UNCHANGED <<mode, syntaxHighlight, showWhitespace, content, tui, run, api, width,
                                height, leftViewport, rightViewport,
                                unifiedViewport>> )

\* C10 amended: the toggle-scroll-sync key flips the scroll-sync flag in
\* SideBySide mode and leaves it as it is in Unified mode; in both modes it
\* changes nothing else (no re-render).
C10_ToggleScrollSyncKey ==
    [][KeyY =>
         /\ scrollSync' = (IF mode = SideBySideMode THEN ~scrollSync ELSE scrollSync)
         /\ UNCHANGED <<mode, syntaxHighlight, showWhitespace, content, tui, run, api, width, height,
                        leftViewport, rightViewport, unifiedViewport>>]_vars

\* Scroll synchronisation has been switched off in the side-by-side view of
\* a diff.
C10_Witness ==
    /\ mode = SideBySideMode
    /\ ~scrollSync
    /\ content # <<>>
    /\ leftViewport.lines # <<>>

\* The offsets of the two panes after a scroll message msg in SideBySide
\* mode, l and r being what each pane's own Update makes of it.
SyncedOffsets(l, r) ==
    /\ leftViewport'.YOffset = rightViewport'.YOffset
    /\ l.YOffset # leftViewport.YOffset => leftViewport'.YOffset = l.YOffset
    /\ l.YOffset = leftViewport.YOffset => leftViewport'.YOffset = r.YOffset

OwnOffsets(l, r) ==
    /\ leftViewport'.YOffset = l.YOffset
    /\ rightViewport'.YOffset = r.YOffset

ScrollOutcome(msg) ==
    mode = SideBySideMode =>
       IF scrollSync
       THEN ( \/ viewportUpdate(leftViewport, msg).YOffset # leftViewport.YOffset
              \/ viewportUpdate(rightViewport, msg).YOffset # rightViewport.YOffset )
            => SyncedOffsets(viewportUpdate(leftViewport, msg),
                             viewportUpdate(rightViewport, msg))
       ELSE OwnOffsets(viewportUpdate(leftViewport, msg),
                       viewportUpdate(rightViewport, msg))

\* C11: with scroll sync on in SideBySide mode, a scroll event that changes
\* a pane's offset leaves both panes at the same offset, the left pane's new
\* offset if the left pane moved and the right pane's otherwise; with scroll
\* sync off each pane keeps the offset of its own update.
C11_ScrollSync ==
    [][ /\ KeyJ => ScrollOutcome("j")
        /\ KeyK => ScrollOutcome("k") ]_vars

\* Both panes of a diff were scrolled down one line with scroll sync on.
C11_Witness ==
    /\ mode = SideBySideMode
    /\ scrollSync
    /\ content # <<>>
    /\ leftViewport.YOffset = 1
    /\ rightViewport.YOffset = 1

\* C12: in every state in which the viewer runs, whatever the mode, the
\* flags and the error, the quit key has a step that returns the quit
\* command and leaves mode, flags, scroll offsets and rendered content as
\* they are.
C12_QuitEverywhere ==
    Running =>
       ENABLED ( /\ KeyQ
                 /\ quit'
                 /\ UNCHANGED <<mode, syntaxHighlight, showWhitespace, scrollSync, err,
                                content, tui, run, api, width, height, leftViewport, rightViewport,
                                unifiedViewport>> )

\* The viewer has quit from the side-by-side view of a diff that did not
\* parse, after a resize.
C12_Witness ==
    /\ quit
    /\ err
    /\ mode = SideBySideMode
    /\ width = 120
    /\ leftViewport.lines = PlainRows(ErrorParsingDiff)

ScrollOffsets ==
    <<leftViewport.YOffset, rightViewport.YOffset, unifiedViewport.YOffset>>

\* C13: while the viewer holds an error the frame is the error message, and
\* no key other than quit changes the mode, the flags or the scroll
\* offsets.
C13_ErrorOnlyQuit ==
    [][ err =>
          /\ View.layout = "error"
          /\ (KeyS \/ KeyH \/ KeyW \/ KeyY \/ KeyJ \/ KeyK) =>
                /\ UNCHANGED <<mode, syntaxHighlight, showWhitespace, scrollSync>>
                /\ ScrollOffsets' = ScrollOffsets ]_vars

\* C15: when side-by-side is requested and the layout planner decides
\* Unified for the terminal width, the frame has the unified body, not the
\* panes joined by the divider, and is labelled "unified (auto)".
C15_NarrowDowngrade ==
    ( /\ ~err
      /\ width > 0
      /\ mode = SideBySideMode
      /\ ~calculateLayout(width)[1] ) =>
         /\ View.layout = "unified"
         /\ View.actualMode = "unified (auto)"

\* The viewports of the current mode have been rendered into.
HasRendering ==
    IF mode = SideBySideMode THEN leftViewport.lines # <<>>
    ELSE unifiedViewport.lines # <<>>

\* What the current mode shows is the rendering of the content at the
\* stored width under the stored flags.
Fresh ==
    HasRendering => ShowsContent(mode, leftViewport, rightViewport, unifiedViewport)

\* The last resize put the size it carried into the viewer and into the
\* viewports of the mode it found.
SizeStored ==
    \/ /\ leftViewport.Width = calculatePaneWidths(width)[1]
       /\ rightViewport.Width = calculatePaneWidths(width)[2]
       /\ leftViewport.Height = height - 6
    \/ /\ unifiedViewport.Width = width - 4
       /\ unifiedViewport.Height = height - 6

\* C14: after every event the content held for the current mode is the
\* rendering at pane widths computed from the stored width, and once a
\* resize was received the stored size is the one it carried and a
\* rendering is held.
C14_ResizeRerenders ==
    /\ Fresh
    /\ width # 0 => HasRendering /\ SizeStored

\* A viewer that was resized to 47 columns in unified mode now shows the
\* panes at 120 columns.
C14_Witness ==
    /\ mode = SideBySideMode
    /\ width = 120
    /\ content = DiffReplace
    /\ unifiedViewport.Width = 43
    /\ leftViewport.lines # <<>>

\* Text search: sub occurs in s.
ContainsText(s, sub) ==
    \E k \in 0..(Len(s) - Len(sub)) : SubSeq(s, k + 1, k + Len(sub)) = sub

NoChanges == <<"N", "o", " ", "c", "h", "a", "n", "g", "e", "s">>

\* C16: renderSideBySideFromEdits on an empty edit script returns a message
\* that contains "No changes", whatever the width and the highlight flag of
\* the viewer, and udiff.Strings on two identical texts returns the empty
\* script.
C16_EmptyScriptMessage ==
    /\ (built.call = "render" /\ built.edits = <<>>) =>
          /\ built.text.kind = "message"
          /\ ContainsText(built.text.rows[1], NoChanges)
    /\ (built.call = "strings" /\ built.orig = built.revised) => built.edits = <<>>

C16_Witness ==
    /\ built.call = "render"
    /\ built.edits = <<>>
    /\ built.orig = OrigAB
    /\ width = 47
    /\ syntaxHighlight
    /\ built.text = Message(NoChangesToDisplay)

\* A miss of the highlighter on the recorded call: no lexer for the file
\* name, or a failure after the lexer was found.
HighlightMiss == ~lexerFound(built.name) \/ built.miss # "none"

\* C17: in both viewers applySyntaxHighlighting returns for every content
\* and every file name, also one without extension that no lexer matches,
\* and on a lexer, formatter, tokenise or format miss it returns the
\* content unchanged.
C17_HighlightNeverFatal ==
    built.call \in {"highlight", "highlightParsed"} =>
        /\ built.text.kind = "returned"
        /\ HighlightMiss => built.text.rows = <<built.orig>>

\* The rows of the recorded build for removed and for added lines.
DeleteRows == {k \in 1..Len(built.left) : built.left[k].kind = "delete"}

AddRows == {k \in 1..Len(built.right) : built.right[k].kind = "add"}

\* A build within a rendering of one edit that removes lines and adds lines.
RemovesAndAdds ==
    built.call = "render" /\ Len(built.edits) = 1 /\ DeleteRows # {} /\ AddRows # {}

CommitTexts(lines) ==
    {TrimSpace(TrimPrefix(lines[k], CommitPrefix)) : k \in CommitLineAt(lines)} \ {<<>>}

PRMarks(lines) == {k \in 1..Len(lines) : HasPrefix(lines[k], PRPrefix)}

AfterFirstPR(lines) ==
    IF PRMarks(lines) = {} THEN <<>>
    ELSE SubSeq(lines, MinOf(PRMarks(lines)) + 1, Len(lines))

ParsedReply == built.call = "parse"

\* C20: parseResponse fails when no "COMMIT:" line has text or the lines
\* after the first "PR:" line are all blank; otherwise it returns the
\* trimmed text of the COMMIT: line and the trimmed lines after the PR:
\* line; it never returns an empty commit message or PR description.
C20_ParseResponse ==
    ParsedReply =>
        IF \/ CommitTexts(Split(built.orig)) = {}
           \/ TrimSpace(Join(AfterFirstPR(Split(built.orig)))) = <<>>
        THEN built.text.kind = "error"
        ELSE /\ built.text.kind = "result"
             /\ built.text.rows[1] \in CommitTexts(Split(built.orig))
             /\ built.text.rows[2] = TrimSpace(Join(AfterFirstPR(Split(built.orig))))
             /\ built.text.rows[1] # <<>>
             /\ built.text.rows[2] # <<>>

\* The reply "COMMIT: fix\nPR:\n b \nCOMMIT: " is refused for want of a
\* commit message.
C20_LostCommit ==
    /\ ParsedReply
    /\ Split(built.orig) = <<<<"C", "O", "M", "M", "I", "T", ":", " ", "f", "i", "x">>,
                             PRPrefix, <<" ", "b", " ">>,
                             <<"C", "O", "M", "M", "I", "T", ":", " ">>>>
    /\ built.text = Failed(ErrNoCommit)

\* The hunk header that diff line i belongs to (0 when none precedes it),
\* and whether both of its start values can be read.
HunkOf(i) ==
    IF \E h \in 1..(i - 1) : IsHunkHeader(DiffLines[h])
    THEN CHOOSE h \in 1..(i - 1) :
            /\ IsHunkHeader(DiffLines[h])
            /\ \A x \in (h + 1)..(i - 1) : ~IsHunkHeader(DiffLines[x])
    ELSE 0

StartsDeclared(h) ==
    /\ h > 0
    /\ Len(Fields(DiffLines[h])) >= 3
    /\ HasPrefix(Fields(DiffLines[h])[2], <<"-">>) /\ ScanInt(Fields(DiffLines[h])[2], 2).ok
    /\ HasPrefix(Fields(DiffLines[h])[3], <<"+">>) /\ ScanInt(Fields(DiffLines[h])[3], 2).ok

\* The lines of the old and of the new file between the header h and line i.
OldBefore(h, i) ==
    Cardinality({j \in (h + 1)..(i - 1) :
                    IsDeletion(DiffLines[j]) \/ IsContext(DiffLines[j])})

NewBefore(h, i) ==
    Cardinality({j \in (h + 1)..(i - 1) :
                    IsAddition(DiffLines[j]) \/ IsContext(DiffLines[j])})

\* C23: in a hunk whose header declares both starts, a numbered row of the
\* left pane shows the old start plus the number of deletion and context
\* lines before its line, and a numbered row of the right pane the new start
\* plus the number of addition and context lines before it, whatever the
\* whitespace flag is.
C23_RowNumbers ==
    PanesRendered =>
      \A i \in 1..Len(DiffLines) :
        StartsDeclared(HunkOf(i)) =>
          /\ \A k \in NumberedRows(LeftRows, i) :
                LeftRows[k].num = ScanInt(Fields(DiffLines[HunkOf(i)])[2], 2).val
                                  + OldBefore(HunkOf(i), i)
          /\ \A k \in NumberedRows(RightRows, i) :
                RightRows[k].num = ScanInt(Fields(DiffLines[HunkOf(i)])[3], 2).val
                                   + NewBefore(HunkOf(i), i)

\* The byte at which line i starts when every line takes its length plus
\* one byte.
RECURSIVE StartOfLine(_, _)
StartOfLine(lines, i) ==
    IF i <= 1 THEN 0 ELSE StartOfLine(lines, i - 1) + Len(lines[i - 1]) + 1

LinesBefore(lines, offset) ==
    {i \in 1..Len(lines) : StartOfLine(lines, i) < offset}

\* C24: countLines(lines, offset) is the number of lines that start before
\* the offset: 0 for offset 0 and for no lines, len(lines) for an offset
\* past the end, and never less than for a smaller offset.
C24_CountLines ==
    built.call = "counted" =>
        /\ built.text.rows[1] = Cardinality(LinesBefore(built.args[1], built.args[2]))
        /\ (built.args[2] = 0 \/ built.args[1] = <<>>) => built.text.rows[1] = 0
        /\ built.args[2] >= StartOfLine(built.args[1], Len(built.args[1]) + 1) =>
              built.text.rows[1] = Len(built.args[1])
        /\ built.text.rows[1] <= countLines(built.args[1], built.args[2] + 1)

\* Three lines "ab", "", "a" and the offset 3, at which the second line
\* starts: one line lies before it.
C24_Witness ==
    /\ built.call = "counted"
    /\ built.args = << <<<<"a", "b">>, <<>>, <<"a">>>>, 3 >>
    /\ built.text = Returned(1)

\* C26: at every width at which calculateLayout selects side-by-side, the
\* viewports are sized with the planner's leftWidth and rightWidth, View
\* composes the panes at those widths, and a composed line (left pane,
\* divider, right pane) is not wider than the planner's available width.
C26_PaneWidths ==
    (mode = SideBySideMode /\ width > 0 /\ calculateLayout(width)[1]) =>
        /\ leftViewport.Width = calculateLayout(width)[2]
        /\ rightViewport.Width = calculateLayout(width)[3]
        /\ calculatePaneWidths(width) = <<calculateLayout(width)[2], calculateLayout(width)[3]>>
        /\ calculatePaneWidths(width)[1] + dividerWidth + calculatePaneWidths(width)[2]
              <= Usable90(width) - margins

\* C27: once a resize has been handled, the viewports of the requested mode
\* have the dimensions derived from the latest terminal size: the pane
\* widths and height - 6 in side-by-side, width - 4 and height - 6 in
\* unified, also after a mode toggle.
C27_ViewportsSized ==
    width > 0 =>
        IF mode = SideBySideMode
        THEN /\ leftViewport.Width = calculatePaneWidths(width)[1]
             /\ rightViewport.Width = calculatePaneWidths(width)[2]
             /\ leftViewport.Height = height - 6
             /\ rightViewport.Height = height - 6
        ELSE /\ unifiedViewport.Width = width - 4
             /\ unifiedViewport.Height = height - 6

\* The key the documented precedence selects: the flag's value when the
\* flag is given, else OPENROUTER_API_KEY when set, else the stored key.
FlagGiven(v) == v.flag # <<>> /\ v.flag[1] # ""

StoredKey(v) ==
    IF v.override # <<>> THEN v.override[1]
    ELSE IF v.file # <<>> THEN v.file[1]
    ELSE ""

\* C21: getAPIKey returns the --api-key value if given, otherwise
\* OPENROUTER_API_KEY if set, otherwise the stored key; with the variable
\* set and no flag given it returns the variable's value whatever is
\* stored.
C21_KeyPrecedence ==
    built.call = "resolved" =>
        /\ FlagGiven(built.args[1]) => built.text.rows[1] = built.args[1].flag[1]
        /\ (~FlagGiven(built.args[1]) /\ built.args[2] # "") =>
              built.text.rows[1] = built.args[2]
        /\ (~FlagGiven(built.args[1]) /\ built.args[2] = "" /\ built.args[1].autoEnv = "") =>
              built.text.rows[1] = StoredKey(built.args[1])

\* The names the template expands to.
Expansions(name) == {ReplaceAll(name, Placeholder, Digits(id)) : id \in 0..(IDRange - 1)}

IsTemplateVar(name) == ToUpper(name) = ToUpper(templateVar)

\* C22: a non-interactive run with --out-pr PR_{{ID}}.md or pr_{{id}}.md
\* that wrote the PR description wrote it to the name with every {{ID}}
\* replaced by one decimal integer in 0..255, the placeholder is not in the
\* name of the file. A name without the placeholder is used as given.
C22_OutName ==
    run.pc = "done" =>
        /\ IsTemplateVar(run.flagOutPR) =>
              /\ \A f \in run.files : ~Contains(ToUpper(f), Placeholder)
              /\ \E f \in Expansions(templateVar) : run.files = {f} \/ run.files = {ToUpper(f)}
        /\ ~Contains(ToUpper(run.flagOutPR), Placeholder) => run.files = {run.flagOutPR}

PreGeneration == {"refs", "diff", "blank", "generate"}

C28_ViewsInOrder ==
    [][/\ (tui.state = RefSelectionView /\ tui'.state = DiffView) =>
              tui.selectedCurrent # <<>> /\ tui.selectedIncoming # <<>>
       /\ (tui.state # ResultView /\ tui'.state = ResultView) => tui.state = DiffView]_vars

\* C29: a savePRDescription that finished wrote the file or reported an
\* error; the TUI did not crash on the truncation of the hashes.
C29_SaveNeverCrashes ==
    /\ ~tui.crashed
    /\ tui.saved.outcome \in {"none", "written", "error"}

\* C30: with a PR template configured, the system prompt of every request
\* sent is the embedded prompt followed by one template instruction,
\* however many calls ran before it or run beside it.
C30_OneInstruction ==
    api.prTemplate =>
        \A i \in 1..Len(api.calls) :
            api.calls[i].pc = "sent" =>
                api.calls[i].content = BasePrompt \o TemplateInstruction

====
